---- MODULE Spec2Model ----
(***************************************************************************)
(* A model of the vote tracker of src/server.py: the bearer-token          *)
(* lifecycle, the snapshot ring buffer, the throttled dual-sink writer     *)
(* with its background worker, and the day-rollover tracker.               *)
(*                                                                         *)
(* Time is the integer `clock`, in seconds (time.time()).  A handler runs  *)
(* at one value of the clock.  The upstream services are the environment:  *)
(* every HTTP exchange of a handler takes its response from a finite       *)
(* `script` the environment chooses, and a call made after the script has  *)
(* run out times out.                                                      *)
(*                                                                         *)
(* Python's falsy None and "" are both written 0 for tokens; None is the   *)
(* string "None" where the other values are strings, and <<>> where they   *)
(* are sequences or records.                                               *)
(***************************************************************************)
EXTENDS Integers, Sequences, FiniteSets, TLC

VARIABLES
    clock,                  \* time.time(), seconds (UTC)
    IS_VERCEL,              \* server.py:36, fixed when the process starts
    GOOGLE_CREDS_FILE,      \* server.py:466-476, TRUE: credentials were found at load
    access_token,           \* server.py:68
    refresh_token,          \* server.py:69
    token_expiry,           \* server.py:70
    current_data,           \* server.py:56
    vote_history,           \* server.py:40
    _last_write_time,       \* server.py:54
    _last_write_snapshot,   \* server.py:55, <<>> is None
    result_xlsx,            \* the data rows of result.xlsx
    _gsheet_initialized,    \* server.py:480
    _gsheet_row_counter,    \* server.py:481
    _gsheet_queue,          \* server.py:482
    sheet_history,          \* sheet1: the data rows earlier runs left, as read back
    sheet,                  \* sheet1: the data rows this process appended
    throttle_A1,            \* the text of cell A1 of _throttle, NoSheet: no such sheet
    writer_wake,            \* the writer thread sleeps until this time
    writer_row,             \* the row the writer thread took and has not sent, <<>>: none
    _prev_day_kst_date,     \* server.py:52, -1 is None
    _prev_day_data,         \* server.py:43
    _prev_day_loaded,       \* server.py:53
    threads,                \* the threads running fetch_poll_data: where each is, and its locals
    lock,                   \* server.py:65, the thread holding it, "none": free
    _gsheet_lock,           \* server.py:483, the thread holding it, "none": free
    aux,                    \* where the API reader and the writer thread are
    slept,                  \* background_fetcher has slept since its last tick
    day_obs,                \* what the last recovery and day check did (observation only)
    fetched,                \* every snapshot appended so far (observation only)
    obs                     \* what the last handler call did (observation only)

authVars == <<access_token, refresh_token, token_expiry>>
stateVars == <<current_data, vote_history, _last_write_time, _last_write_snapshot>>
sinkVars == <<result_xlsx, _gsheet_initialized, _gsheet_row_counter, _gsheet_queue,
              sheet_history, sheet, throttle_A1, writer_wake, writer_row>>
dayVars == <<_prev_day_kst_date, _prev_day_data, _prev_day_loaded, day_obs>>
concVars == <<threads, lock, _gsheet_lock, aux>>

vars == <<clock, IS_VERCEL, GOOGLE_CREDS_FILE, concVars, authVars, stateVars, sinkVars, dayVars, slept,
          fetched, obs>>

(***************************************************************************)
(* Bounds of the model.                                                    *)
(***************************************************************************)
MaxScript == 5
MaxAuthClock == 3100

(***************************************************************************)
(* Program constants.                                                      *)
(***************************************************************************)
LEASE == 1500               \* 25 * 60, server.py:153 and :195

(***************************************************************************)
(* The upstream's answers to one HTTP exchange.                            *)
(*   ok      : status 200 and a well-formed body                           *)
(*   unauth  : status 401                                                  *)
(*   bad     : any other non-200 status, or status 200 with a body that    *)
(*             does not parse or lacks the key (every caller treats the    *)
(*             two alike: raise, or fall through, to the failure path)     *)
(*   timeout : requests raises                                             *)
(***************************************************************************)
Responses == {"ok", "unauth", "bad", "timeout"}

SeqsUpTo(S, n) == UNION {[1..k -> S] : k \in 0..n}

Scripts == SeqsUpTo(Responses, MaxScript)

TokenIds == {1}

\* The one element of a singleton: Only({F(x) : x \in {e}}) evaluates e once.
Only(S) == CHOOSE x \in S : TRUE

\* The i-th response of a script; a request after the script's end times out.
Peek(s, i) == IF i <= Len(s) THEN s[i] ELSE "timeout"

Drop(s, n) == IF n >= Len(s) THEN <<>> ELSE SubSeq(s, n + 1, Len(s))

(***************************************************************************)
(* The session and the bookkeeping of one handler call, threaded through   *)
(* the auth functions: at/rt/exp are access_token, refresh_token and       *)
(* token_expiry, error is current_data["error"], script the responses not  *)
(* yet consumed, ok the function's return value, sent the number of HTTP    *)
(* requests made so far.                                                   *)
(***************************************************************************)
Ctx(script) ==
    [at |-> access_token, rt |-> refresh_token, exp |-> token_expiry,
     error |-> current_data.error, script |-> script, ok |-> TRUE,
     nLogin |-> 0, nRefresh |-> 0, nResults |-> 0, sent |-> 0,
     authFailed |-> FALSE]

\* authenticate(), server.py:75-162.  tok/rtok: the tokens of the token
\* response (rtok = 0: the response has no refreshToken).
\* A failure path that also forgets the stored session.
AuthFail_ClearsSession(c, used) ==
    [c EXCEPT !.script = Drop(c.script, used), !.ok = FALSE,
              !.error = "Authentication failed", !.nLogin = @ + 1,
              !.sent = @ + used, !.authFailed = TRUE,
              !.at = 0, !.rt = 0, !.exp = 0]

AuthFail(c, used) ==
    [c EXCEPT !.script = Drop(c.script, used), !.ok = FALSE,
              !.error = "Authentication failed", !.nLogin = @ + 1,
              !.sent = @ + used, !.authFailed = TRUE]

authenticate(c, tok, rtok, now) ==
    IF Peek(c.script, 1) = "timeout" THEN AuthFail(c, 1)       \* s.get raises
    ELSE IF Peek(c.script, 2) # "ok" THEN AuthFail(c, 2)       \* login
    ELSE IF Peek(c.script, 3) # "ok" THEN AuthFail(c, 3)       \* oauth authorize
    ELSE IF Peek(c.script, 4) # "ok" THEN AuthFail(c, 4)       \* token exchange
    ELSE [c EXCEPT !.script = Drop(c.script, 4), !.ok = TRUE,
                   !.at = tok, !.rt = rtok, !.exp = now + LEASE,
                   !.nLogin = @ + 1, !.sent = @ + 4]

\* ensure_auth(), server.py:165-170.
ensure_auth(c, tok, rtok, now) ==
    IF c.at = 0 \/ now > c.exp
    THEN authenticate(c, tok, rtok, now)
    ELSE [c EXCEPT !.ok = TRUE]

\* try_refresh_token() without the fallback of server.py:201-202: a failed
\* refresh request returns False.
try_refresh_token_NoFallback(c, tok, rtok, now) ==
    IF c.rt = 0 THEN authenticate([c EXCEPT !.nRefresh = @ + 1], tok, rtok, now)
    ELSE IF Peek(c.script, 1) = "ok"
    THEN [c EXCEPT !.script = Drop(c.script, 1), !.ok = TRUE,
                   !.nRefresh = @ + 1, !.sent = @ + 1, !.at = tok,
                   !.rt = IF rtok = 0 THEN c.rt ELSE rtok,
                   !.exp = now + LEASE]
    ELSE [c EXCEPT !.script = Drop(c.script, 1), !.ok = FALSE,
                   !.nRefresh = @ + 1, !.sent = @ + 1]

\* try_refresh_token(), server.py:173-202.
try_refresh_token(c, tok, rtok, now) ==
    Only({
    IF c1.rt = 0 THEN authenticate(c1, tok, rtok, now)
    ELSE IF Peek(c1.script, 1) = "ok"
    THEN [c1 EXCEPT !.script = Drop(c1.script, 1), !.ok = TRUE,
                    !.sent = @ + 1,
                    !.at = tok,
                    !.rt = IF rtok = 0 THEN c1.rt ELSE rtok,
                    !.exp = now + LEASE]
    ELSE authenticate([c1 EXCEPT !.script = Drop(c1.script, 1), !.sent = @ + 1],
                      tok, rtok, now)
    : c1 \in {[c EXCEPT !.nRefresh = @ + 1]} })

\* fetch_poll_results(), server.py:226-252.  ok = TRUE: the call returned
\* r.json(); ok = FALSE: it returned None.
RECURSIVE fetch_poll_results(_, _, _, _)
fetch_poll_results(c, tok, rtok, now) ==
    Only({
    IF ~a.ok THEN a
    ELSE Only({
         IF Peek(a.script, 1) = "ok" THEN [b EXCEPT !.ok = TRUE]
         ELSE IF Peek(a.script, 1) = "unauth"
         THEN Only({ IF t.ok THEN fetch_poll_results(t, tok, rtok, now)
                     ELSE [t EXCEPT !.ok = FALSE]
                     : t \in {try_refresh_token(b, tok, rtok, now)} })
         ELSE [b EXCEPT !.ok = FALSE]
         : b \in {[a EXCEPT !.script = Drop(a.script, 1), !.nResults = @ + 1,
                             !.sent = @ + 1]} })
    : a \in {ensure_auth(c, tok, rtok, now)} })

(***************************************************************************)
(* Time, labels and dates.  A snapshot's timestamp is the clock value of   *)
(* its fetch; the row label strftime("%Y-%m-%d %H:%M:%S") of it in VN_TZ   *)
(* is written as the number of seconds of that local time, its first 16    *)
(* characters (the minute) as that number without its seconds.             *)
(***************************************************************************)
WRITE_INTERVAL == 60        \* server.py:31
VN_OFFSET == 25200          \* UTC+7, server.py:34
KST_OFFSET == 32400         \* UTC+9, server.py:35
DAY == 24 * 3600            \* one calendar day (no DST in either zone)

Label(t) == t + VN_OFFSET

\* minute_key(), server.py:665-666: s[:16].
minute_key(label) == label \div 60

\* datetime.now(KST_TZ).strftime("%Y-%m-%d"), server.py:752-753.
KstDate(t) == (t + KST_OFFSET) \div DAY

\* The date of a row label read without the change of zone.
KstDateOfLabel_NoConversion(label) == label \div DAY

\* The KST date of a row label (VN local time), server.py:812-814.
KstDateOfLabel(label) == (label - VN_OFFSET + KST_OFFSET) \div DAY

(***************************************************************************)
(* Candidates.  A candidate is [name, votes] (id and image are carried     *)
(* along unread).  strip() on the names of the model.                      *)
(***************************************************************************)
DORAN == "T1 Doran"
GUMA == "Hanwha Life Esports Gumayusi"
TRACK_NAMES == {DORAN, GUMA}                    \* server.py:323

Strip(name) == IF name = " T1 Doran " THEN DORAN ELSE name

Cand(n, v) == [name |-> n, votes |-> v]

RECURSIVE SumVotes(_)
SumVotes(cs) == IF cs = <<>> THEN 0 ELSE Head(cs).votes + SumVotes(Tail(cs))

\* {c["name"].strip(): c["votes"] for c in cands}: the last entry of a name wins.
HasName(cs, n) == \E i \in 1..Len(cs) : Strip(cs[i].name) = n

VotesOf(cs, n) ==
    LET last == CHOOSE i \in 1..Len(cs) :
                    /\ Strip(cs[i].name) = n
                    /\ \A j \in (i + 1)..Len(cs) : Strip(cs[j].name) # n
    IN cs[last].votes

\* len(tracked), server.py:372-377 and :683-688.
TrackedCount(cs) == Cardinality({n \in TRACK_NAMES : HasName(cs, n)})

\* tracked.get(name, 0) / prev_map.get(name, default)
GetVotes(cs, n, default) == IF HasName(cs, n) THEN VotesOf(cs, n) ELSE default

(***************************************************************************)
(* The row [timestamp, doran, doran_diff, guma, guma_diff, gap] both       *)
(* writers build, or <<>> when they return before building one.            *)
(***************************************************************************)
MkRow(ts, d, dd, g, gd) ==
    [ts |-> ts, doran |-> d, doran_diff |-> dd, guma |-> g, guma_diff |-> gd,
     gap |-> d - g]

BuildRow(cands, history, lws, last_updated, now) ==
    IF cands = <<>> THEN <<>>
    ELSE IF TrackedCount(cands) < 2 THEN <<>>
    ELSE LET doran == GetVotes(cands, DORAN, 0)
             guma == GetVotes(cands, GUMA, 0)
             ts == IF last_updated # -1 THEN Label(last_updated) ELSE Label(now)
             prev == history[Len(history) - 1].candidates
         IN IF lws # <<>>
            THEN MkRow(ts, doran, doran - lws.doran, guma, guma - lws.guma)
            ELSE IF Len(history) >= 2
            THEN MkRow(ts, doran, doran - GetVotes(prev, DORAN, doran),
                       guma, guma - GetVotes(prev, GUMA, guma))
            ELSE MkRow(ts, doran, 0, guma, 0)

\* write_result_file(), server.py:361-456: the row it appends (<<>>: none).
\* fileOk = FALSE: loading or saving the workbook raises.
write_result_file(cd, history, lws, now, fileOk) ==
    LET row == BuildRow(cd.candidates, history, lws, cd.last_updated, now)
    IN IF row = <<>> \/ ~fileOk THEN <<>> ELSE row

(***************************************************************************)
(* Cell text.  A cell of the sheet read back is a string, written here as  *)
(* the sequence of its characters.  str(n) and int(s) over it.             *)
(***************************************************************************)
DIGITS == <<"0", "1", "2", "3", "4", "5", "6", "7", "8", "9">>

IsDigit(ch) == \E d \in 1..Len(DIGITS) : DIGITS[d] = ch

DigitVal(ch) == (CHOOSE d \in 1..Len(DIGITS) : DIGITS[d] = ch) - 1

RECURSIVE Digits(_)
Digits(n) ==
    IF n < Len(DIGITS) THEN <<DIGITS[n + 1]>>
    ELSE Digits(n \div Len(DIGITS)) \o <<DIGITS[(n % Len(DIGITS)) + 1]>>

\* str(n)
Str(n) == IF n < 0 THEN <<"-">> \o Digits(-n) ELSE Digits(n)

\* s.replace(ch, '') and s.count(ch)
Remove(s, ch) == SelectSeq(s, LAMBDA c : c # ch)

Count(s, ch) == Len(SelectSeq(s, LAMBDA c : c = ch))

\* s.strip()
RECURSIVE StripText(_)
StripText(s) ==
    IF s = <<>> THEN s
    ELSE IF Head(s) = " " THEN StripText(Tail(s))
    ELSE IF s[Len(s)] = " " THEN StripText(SubSeq(s, 1, Len(s) - 1))
    ELSE s

RECURSIVE DigitsValue(_)
DigitsValue(s) ==
    IF s = <<>> THEN 0
    ELSE DigitsValue(SubSeq(s, 1, Len(s) - 1)) * Len(DIGITS) + DigitVal(s[Len(s)])

\* int(s): an optional sign and at least one digit; ok = FALSE: ValueError.
ParseInt(s) ==
    LET t == StripText(s)
        signed == t # <<>> /\ Head(t) \in {"-", "+"}
        body == IF signed THEN Tail(t) ELSE t
    IN IF body = <<>> \/ \E i \in 1..Len(body) : ~IsDigit(body[i])
       THEN [ok |-> FALSE, val |-> 0]
       ELSE [ok |-> TRUE,
             val |-> IF signed /\ Head(t) = "-" THEN 0 - DigitsValue(body)
                     ELSE DigitsValue(body)]

\* The spreadsheet has no _throttle worksheet (its cell is never read: the
\* initialisation creates the worksheet first).
NoSheet == <<"no _throttle worksheet">>

\* The text of s before and after its first ch.
RECURSIVE Before(_, _)
Before(s, ch) ==
    IF s = <<>> \/ Head(s) = ch THEN <<>> ELSE <<Head(s)>> \o Before(Tail(s), ch)

After(s, ch) == Drop(s, Len(Before(s, ch)) + 1)

\* A reading of the marker that drops the fraction of a second.
ParseMarker_NoFraction(cell) ==
    LET val == Remove(StripText(cell), ",")
        bare == Remove(val, ".")
    IN IF bare = <<>> \/ \E i \in 1..Len(bare) : ~IsDigit(bare[i])
       THEN [ok |-> FALSE, why |-> "empty_or_invalid", whole |-> 0, frac |-> FALSE]
       ELSE IF Count(val, ".") > 1
       THEN [ok |-> FALSE, why |-> "read_error", whole |-> 0, frac |-> FALSE]
       ELSE [ok |-> TRUE, why |-> "number",
             whole |-> DigitsValue(Before(val, ".")), frac |-> FALSE]

\* server.py:644-647: the cell stripped and without commas; it is a number
\* when it is digits around at most one dot (isdigit() of the text without
\* dots, then float(), which raises on a second dot).  whole is the integer
\* part, frac tells whether a non-zero fraction follows.
ParseMarker(cell) ==
    LET val == Remove(StripText(cell), ",")
        bare == Remove(val, ".")
    IN IF bare = <<>> \/ \E i \in 1..Len(bare) : ~IsDigit(bare[i])
       THEN [ok |-> FALSE, why |-> "empty_or_invalid", whole |-> 0, frac |-> FALSE]
       ELSE IF Count(val, ".") > 1
       THEN [ok |-> FALSE, why |-> "read_error", whole |-> 0, frac |-> FALSE]
       ELSE [ok |-> TRUE, why |-> "number",
             whole |-> DigitsValue(Before(val, ".")),
             frac |-> \E i \in 1..Len(After(val, ".")) : After(val, ".")[i] # "0"]

\* parse_int(), server.py:834-844.
parse_int(val) ==
    LET s0 == StripText(val)
        s1 == IF Count(s0, ".") > 1 THEN Remove(s0, ".")
              ELSE IF Count(s0, ".") > 0 /\ Count(s0, ",") > 0 THEN Remove(s0, ",")
              ELSE Remove(Remove(s0, ","), ".")
    IN ParseInt(s1)

(***************************************************************************)
(* The remote sheet.  row_count is taken to be the index of the last data  *)
(* row, as the docstring of _gsheet_last_row_same_minute has it; row 1 is  *)
(* the header.                                                             *)
(***************************************************************************)
QueueCap == 2               \* stands for maxlen=500, server.py:482
HistoryCap == 2             \* stands for maxlen=17280, server.py:40

\* A bounded buffer that refuses the new entry when it is full.
DequeAppend_KeepOldest(q, x, cap) ==
    IF Len(q) >= cap THEN q ELSE Append(q, x)

\* An append without a bound.
DequeAppend_Unbounded(q, x, cap) == Append(q, x)

\* deque.append with maxlen: the oldest entry leaves when the deque is full.
DequeAppend(q, x, cap) ==
    IF Len(q) >= cap THEN Append(Tail(q), x) ELSE Append(q, x)

\* A data row as it is read back: the label of column A (-1: a text
\* strptime rejects) and the text of the cells to its right.
HistRow(ts, doran, guma) ==
    [ts |-> ts, cells |-> <<doran, Str(0), guma, Str(0), Str(0)>>]

\* A row this process appended (value_input_option="RAW"), read back.
ReadBack(row) ==
    [ts |-> row.ts,
     cells |-> <<Str(row.doran), Str(row.doran_diff), Str(row.guma),
                 Str(row.guma_diff), Str(row.gap)>>]

ColumnA(hist, sh) ==
    [i \in 1..Len(hist) |-> hist[i].ts] \o [i \in 1..Len(sh) |-> sh[i].ts]

\* _gsheet_last_row_same_minute(), server.py:653-669.  readOk = FALSE: the
\* read of the last cell raises.  An unreadable label is -1.
_gsheet_last_row_same_minute(new_ts, initialized, hist, sh, readOk) ==
    LET col == ColumnA(hist, sh)
        last_row == 1 + Len(col)
    IN IF ~initialized THEN FALSE
       ELSE IF last_row < 2 THEN FALSE
       ELSE IF ~readOk THEN FALSE
       ELSE minute_key(col[Len(col)]) = minute_key(new_ts)

\* An initialisation that succeeds whether or not it can.
_init_gsheet_Always(g, hist, ok) ==
    [g EXCEPT !.init = TRUE,
              !.thr = IF @ = NoSheet THEN Str(0) ELSE @,
              !.rc = 1 + Len(hist) + Len(g.sheet),
              !.calls = Append(@, "init")]

\* _init_gsheet(), server.py:485-527, on the record g of the remote session:
\* g.init is _gsheet_initialized, g.rc _gsheet_row_counter, g.thr cell A1 of
\* _throttle, g.sheet the rows appended, g.calls the remote calls made so far.
\* ok = FALSE: the credentials are missing or a call of it raises.
_init_gsheet(g, hist, ok) ==
    IF ~ok THEN [g EXCEPT !.calls = Append(@, "init")]
    ELSE [g EXCEPT !.init = TRUE,
                   !.thr = IF @ = NoSheet THEN Str(0) ELSE @,
                   !.rc = 1 + Len(hist) + Len(g.sheet),
                   !.calls = Append(@, "init")]

(***************************************************************************)
(* _load_prev_day_from_gsheet(), server.py:782-871.                        *)
(***************************************************************************)
NoPrevDay ==
    [date |-> -1, winner |-> "None", winner_votes |-> 0, runnerup |-> "None",
     runnerup_votes |-> 0, diff |-> 0, loaded |-> FALSE]

\* server.py:807-820: the sheet row (2..total) of the last label of yesterday,
\* 0 when the scan ends without one.  i is the index into all_ts.
RECURSIVE ScanBack(_, _, _)
ScanBack(col, i, yesterday_kst) ==
    IF i < 1 THEN 0
    ELSE IF col[i] = -1 THEN ScanBack(col, i - 1, yesterday_kst)
    ELSE IF KstDateOfLabel(col[i]) = yesterday_kst THEN i + 1
    ELSE IF KstDateOfLabel(col[i]) < yesterday_kst THEN 0
    ELSE ScanBack(col, i - 1, yesterday_kst)

\* A fact that always names T1 Doran the winner.
LoadedFact_DoranFirst(yesterday_kst, doran, guma) ==
    [date |-> yesterday_kst, winner |-> "T1 Doran", winner_votes |-> doran,
     runnerup |-> "HLE Gumayusi", runnerup_votes |-> guma,
     diff |-> doran - guma, loaded |-> TRUE]

\* server.py:846-868.
LoadedFact(yesterday_kst, doran, guma) ==
    IF doran >= guma
    THEN [date |-> yesterday_kst, winner |-> "T1 Doran", winner_votes |-> doran,
          runnerup |-> "HLE Gumayusi", runnerup_votes |-> guma,
          diff |-> doran - guma, loaded |-> TRUE]
    ELSE [date |-> yesterday_kst, winner |-> "HLE Gumayusi", winner_votes |-> guma,
          runnerup |-> "T1 Doran", runnerup_votes |-> doran,
          diff |-> guma - doran, loaded |-> TRUE]

\* d is [loaded, date, data]: _prev_day_loaded, _prev_day_kst_date and
\* _prev_day_data.  initOk: _init_gsheet succeeds; readOk: col_values and
\* row_values succeed.  The result is the session, d after the call, and
\* where the call ended.
_load_prev_day_from_gsheet(g, hist, d, now, initOk, readOk) ==
    LET g1 == IF g.init THEN g ELSE _init_gsheet(g, hist, initOk)
        today_kst == KstDate(now)
        yesterday_kst == KstDate(now - DAY)
        rows == hist \o [i \in 1..Len(g1.sheet) |-> ReadBack(g1.sheet[i])]
        all_ts == [i \in 1..Len(rows) |-> rows[i].ts]
        total == 1 + Len(all_ts)
        target_row == ScanBack(all_ts, total - 1, yesterday_kst)
        row_data == rows[target_row - 1].cells
        doran == parse_int(row_data[1])
        guma == parse_int(row_data[3])
        d1 == [d EXCEPT !.loaded = TRUE]
        d2 == [d1 EXCEPT !.date = today_kst]
        g2 == [g1 EXCEPT !.calls = Append(@, "col_values")]
        g3 == [g2 EXCEPT !.calls = Append(@, "row_values")]
    IN IF d.loaded THEN [g |-> g, d |-> d, outcome |-> "already"]
       ELSE IF ~g1.init THEN [g |-> g1, d |-> d1, outcome |-> "no_session"]
       ELSE IF ~readOk THEN [g |-> g2, d |-> d2, outcome |-> "read_error"]
       ELSE IF total <= 1 THEN [g |-> g2, d |-> d2, outcome |-> "too_small"]
       ELSE IF target_row = 0 THEN [g |-> g2, d |-> d2, outcome |-> "no_row"]
       ELSE IF 1 + Len(row_data) < 4 THEN [g |-> g3, d |-> d2, outcome |-> "short_row"]
       ELSE IF ~doran.ok \/ ~guma.ok
       THEN [g |-> g3, d |-> d2, outcome |-> "parse_error"]
       ELSE [g |-> g3,
             d |-> [d2 EXCEPT !.data = LoadedFact(yesterday_kst, doran.val, guma.val)],
             outcome |-> "loaded"]

\* What _init_gsheet can do where it is called: nothing when the session is
\* there (done), fail when the credentials are missing (server.py:488-490),
\* succeed or raise otherwise.
InitOks(done) ==
    IF done THEN {TRUE} ELSE IF GOOGLE_CREDS_FILE THEN BOOLEAN ELSE {FALSE}

GSession ==
    [init |-> _gsheet_initialized, rc |-> _gsheet_row_counter,
     thr |-> throttle_A1, sheet |-> sheet, calls |-> <<>>]

\* The remote calls of one handler: initOk, readOk: _init_gsheet and the
\* reads succeed; append, format: "ok", "429" (rate limit) or "err";
\* markOk: the update of the throttle cell succeeds.
RemoteResults == {"ok", "429", "err"}

\* _gsheet_should_write(), server.py:635-650 (called in stateless mode only).
\* Returns the session, the decision and the branch that took it:
\* "no_session" (:640-641), "read_error" (:649-650, the read or float()
\* raised), "empty_or_invalid" (:645-646), "age" (:647-648).
\* time.time() - last_ts >= WRITE_INTERVAL over whole seconds: a marker with
\* a fraction is older than its integer part by less than a second.
_gsheet_should_write(g, hist, now, initOk, readOk) ==
    LET g1 == IF g.init THEN g ELSE _init_gsheet(g, hist, initOk)
        g2 == [g1 EXCEPT !.calls = Append(@, "read_marker")]
        m == ParseMarker(g1.thr)
    IN IF ~g1.init THEN [g |-> g1, due |-> TRUE, why |-> "no_session"]
       ELSE IF ~readOk THEN [g |-> g2, due |-> TRUE, why |-> "read_error"]
       ELSE IF ~m.ok THEN [g |-> g2, due |-> TRUE, why |-> m.why]
       ELSE [g |-> g2, why |-> "age",
             due |-> IF m.frac THEN now - m.whole > WRITE_INTERVAL
                     ELSE now - m.whole >= WRITE_INTERVAL]

\* write_google_sheet(), server.py:672-743.  Returns the session, the queue
\* and the row it built (<<>>: none), enqueued or appended.
write_google_sheet(cd, history, lws, now, g, queue, hist, vercel, initOk, readOk, append) ==
    LET row == BuildRow(cd.candidates, history, lws, cd.last_updated, now)
        none == [g |-> g, queue |-> queue, built |-> row, enqueued |-> FALSE,
                 appended |-> FALSE]
        g1 == IF g.init /\ Len(hist) + Len(g.sheet) >= 1
              THEN [g EXCEPT !.calls = Append(@, "read_last")]
              ELSE g
    IN IF row = <<>> THEN none
       ELSE IF _gsheet_last_row_same_minute(row.ts, g.init, hist, g.sheet, readOk)
       THEN [none EXCEPT !.g = g1]
       ELSE IF vercel
       THEN LET g2 == IF g1.init THEN g1 ELSE _init_gsheet(g1, hist, initOk) IN
            IF ~g2.init THEN [none EXCEPT !.g = g2]
            ELSE IF append # "ok"
            THEN [none EXCEPT !.g = [g2 EXCEPT !.calls = Append(@, "append")]]
            \* append_row has succeeded; "_gsheet_row_counter += 1" then raises
            \* UnboundLocalError (the function assigns the name and does not
            \* declare it global), which line 735 catches: no format call, no
            \* marker update.
            ELSE [none EXCEPT !.g = [g2 EXCEPT !.sheet = Append(@, row),
                                               !.calls = Append(@, "append")],
                              !.appended = TRUE]
       ELSE [none EXCEPT !.g = g1,
                         !.queue = DequeAppend(queue, row, QueueCap),
                         !.enqueued = TRUE]

(***************************************************************************)
(* fetch_poll_data(), server.py:255-318.  payload is the body of a 200     *)
(* answer of the results endpoint: the candidates it lists, or EmptyDict   *)
(* for {} (falsy).  meta is the title of the metadata answer, or "None".   *)
(***************************************************************************)
EmptyDict == <<[name |-> "{}", votes |-> 0]>>
ENABLE_VERCEL_GSHEET_WRITE == TRUE              \* server.py:32 (default)

\* The ring-buffer observation: how many snapshots were appended, and the
\* last HistoryCap + 1 of them.
LastN(q, n) == IF Len(q) <= n THEN q ELSE SubSeq(q, Len(q) - n + 1, Len(q))

Record(f, snapshot) ==
    [n |-> f.n + 1, recent |-> LastN(Append(f.recent, snapshot), HistoryCap + 1)]

\* A failure branch that also forgets the candidates it had.
FetchFailed_DropsCandidates(c, g) ==
    [at |-> c.at, rt |-> c.rt, exp |-> c.exp,
     cd |-> [current_data EXCEPT
                !.candidates = <<>>, !.total_votes = 0,
                !.error = IF c.error = "None"
                          THEN "Failed to fetch poll results. Retrying..."
                          ELSE c.error],
     hist |-> vote_history, lwt |-> _last_write_time,
     lws |-> _last_write_snapshot, file |-> result_xlsx,
     g |-> g, queue |-> _gsheet_queue, fetched |-> fetched,
     obs |-> [op |-> "fetch_poll_data", ok |-> FALSE, due |-> FALSE,
              tracked |-> 0, built |-> <<>>, fileRow |-> <<>>,
              enqueued |-> FALSE, appended |-> FALSE, calls |-> <<>>,
              nRefresh |-> c.nRefresh, nResults |-> c.nResults,
              authFailed |-> c.authFailed]]

\* server.py:314-318: no results.  authFailed: a login of this call failed
\* (the call then ended there, server.py:228-229 and :243).
FetchFailed(c, g) ==
    [at |-> c.at, rt |-> c.rt, exp |-> c.exp,
     cd |-> [current_data EXCEPT
                !.error = IF c.error = "None"
                          THEN "Failed to fetch poll results. Retrying..."
                          ELSE c.error],
     hist |-> vote_history, lwt |-> _last_write_time,
     lws |-> _last_write_snapshot, file |-> result_xlsx,
     g |-> g, queue |-> _gsheet_queue, fetched |-> fetched,
     obs |-> [op |-> "fetch_poll_data", ok |-> FALSE, due |-> FALSE,
              tracked |-> 0, built |-> <<>>, fileRow |-> <<>>,
              enqueued |-> FALSE, appended |-> FALSE, calls |-> <<>>,
              nRefresh |-> c.nRefresh, nResults |-> c.nResults,
              authFailed |-> c.authFailed]]

\* server.py:299-313: the write step, after the state update of :285-295
\* (cd1, hist1) and the decision sw.
WriteStep(c, snapshot, cd1, hist1, sw, fileOk, initOk, readOk, append) ==
    IF ~sw.due
    THEN [at |-> c.at, rt |-> c.rt, exp |-> c.exp, cd |-> cd1, hist |-> hist1,
          lwt |-> _last_write_time, lws |-> _last_write_snapshot,
          file |-> result_xlsx, g |-> sw.g, queue |-> _gsheet_queue,
          fetched |-> Record(fetched, snapshot),
          obs |-> [op |-> "fetch_poll_data", ok |-> TRUE, due |-> FALSE,
                   tracked |-> TrackedCount(snapshot.candidates),
                   built |-> <<>>, fileRow |-> <<>>,
                   enqueued |-> FALSE, appended |-> FALSE, calls |-> sw.g.calls,
                   nRefresh |-> c.nRefresh, nResults |-> c.nResults,
                   why |-> sw.why]]
    ELSE Only({
         [at |-> c.at, rt |-> c.rt, exp |-> c.exp, cd |-> cd1, hist |-> hist1,
          lwt |-> clock,
          lws |-> IF TrackedCount(snapshot.candidates) >= 2
                  THEN [doran |-> GetVotes(snapshot.candidates, DORAN, 0),
                        guma |-> GetVotes(snapshot.candidates, GUMA, 0)]
                  ELSE _last_write_snapshot,
          file |-> IF fileRow = <<>> THEN result_xlsx
                   ELSE Append(result_xlsx, fileRow),
          g |-> w.g, queue |-> w.queue,
          fetched |-> Record(fetched, snapshot),
          obs |-> [op |-> "fetch_poll_data", ok |-> TRUE, due |-> TRUE,
                   tracked |-> TrackedCount(snapshot.candidates),
                   built |-> w.built, fileRow |-> fileRow,
                   enqueued |-> w.enqueued, appended |-> w.appended,
                   calls |-> w.g.calls,
                   nRefresh |-> c.nRefresh, nResults |-> c.nResults,
                   why |-> sw.why]]
         : fileRow \in {IF IS_VERCEL THEN <<>>
                        ELSE write_result_file(cd1, hist1, _last_write_snapshot,
                                               clock, fileOk)},
           w \in {write_google_sheet(cd1, hist1, _last_write_snapshot, clock,
                                     sw.g, _gsheet_queue, sheet_history,
                                     IS_VERCEL, initOk, readOk, append)} })

\* A decision that is always to write.
should_write_Always(g, initOk, readOk) == [g |-> g, due |-> TRUE, why |-> "timer"]

\* server.py:299-303: should_write, with the session the decision leaves.
should_write(g, initOk, readOk) ==
    IF ~IS_VERCEL
    THEN [g |-> g, due |-> (clock - _last_write_time >= WRITE_INTERVAL),
          why |-> "timer"]
    ELSE IF ENABLE_VERCEL_GSHEET_WRITE
    THEN _gsheet_should_write(g, sheet_history, clock, initOk, readOk)
    ELSE [g |-> g, due |-> FALSE, why |-> "disabled"]

\* server.py:264-303: the snapshot, the state update and the write decision.
FetchSucceeded(c, g, payload, meta, fileOk, initOk, readOk, append) ==
    Only({ WriteStep(c, snapshot, cd1, hist1, sw, fileOk, initOk, readOk, append)
         : snapshot \in {[timestamp |-> clock, candidates |-> payload,
                          total |-> SumVotes(payload)]},
           cd1 \in {[poll_title |-> IF meta # "None" THEN meta
                                    ELSE current_data.poll_title,
                     poll_body |-> IF meta # "None" THEN meta
                                   ELSE current_data.poll_body,
                     poll_image |-> IF meta # "None" THEN meta
                                    ELSE current_data.poll_image,
                     candidates |-> payload,
                     total_votes |-> SumVotes(payload),
                     last_updated |-> clock,
                     error |-> "None"]},
           hist1 \in {DequeAppend(vote_history,
                                  [timestamp |-> clock, candidates |-> payload,
                                   total |-> SumVotes(payload)], HistoryCap)},
           sw \in {should_write(g, initOk, readOk)} })

FetchOutcome(g, script, payload, meta, fileOk, initOk, readOk, append) ==
    Only({ IF c.ok /\ payload # EmptyDict
           THEN FetchSucceeded(c, g, payload, meta, fileOk, initOk, readOk, append)
           ELSE FetchFailed(c, g)
         : c \in {fetch_poll_results(Ctx(script), 1, 1, clock)} })

\* g is the remote session as the caller left it.
fetch_poll_data(g, script, payload, meta, fileOk, initOk, readOk, append) ==
    \E o \in {FetchOutcome(g, script, payload, meta, fileOk, initOk, readOk, append)} :
       /\ access_token' = o.at
       /\ refresh_token' = o.rt
       /\ token_expiry' = o.exp
       /\ current_data' = o.cd
       /\ vote_history' = o.hist
       /\ _last_write_time' = o.lwt
       /\ _last_write_snapshot' = o.lws
       /\ result_xlsx' = o.file
       /\ _gsheet_initialized' = o.g.init
       /\ _gsheet_row_counter' = o.g.rc
       /\ throttle_A1' = o.g.thr
       /\ sheet' = o.g.sheet
       /\ _gsheet_queue' = o.queue
       /\ fetched' = o.fetched
       /\ obs' = o.obs
       /\ UNCHANGED <<sheet_history, writer_wake, writer_row>>

(***************************************************************************)
(* _check_day_change(), server.py:748-779.                                 *)
(***************************************************************************)
\* sorted(candidates, key=votes, reverse=True): stable, so candidates with
\* equal votes keep their order in the list.
\* An insertion that puts a candidate before those of equal votes.
RECURSIVE InsertDesc_TiesFirst(_, _)
InsertDesc_TiesFirst(sorted, c) ==
    IF sorted = <<>> THEN <<c>>
    ELSE IF Head(sorted).votes > c.votes
    THEN <<Head(sorted)>> \o InsertDesc_TiesFirst(Tail(sorted), c)
    ELSE <<c>> \o sorted

RECURSIVE InsertDesc(_, _)
InsertDesc(sorted, c) ==
    IF sorted = <<>> THEN <<c>>
    ELSE IF Head(sorted).votes >= c.votes
    THEN <<Head(sorted)>> \o InsertDesc(Tail(sorted), c)
    ELSE <<c>> \o sorted

RECURSIVE SortDesc(_)
SortDesc(cs) ==
    IF cs = <<>> THEN <<>>
    ELSE InsertDesc(SortDesc(SubSeq(cs, 1, Len(cs) - 1)), cs[Len(cs)])

DayFact(date, candidates) ==
    LET sorted_c == SortDesc(candidates)
        winner == sorted_c[1]
        runnerup == IF Len(sorted_c) > 1 THEN sorted_c[2] ELSE Cand("N/A", 0)
    IN [date |-> date, winner |-> winner.name, winner_votes |-> winner.votes,
        runnerup |-> runnerup.name, runnerup_votes |-> runnerup.votes,
        diff |-> winner.votes - runnerup.votes, loaded |-> TRUE]

\* _check_day_change without the "is None" case of server.py:755-757.
_check_day_change_NoFirstCase(d, candidates, now) ==
    LET today_kst == KstDate(now) IN
    IF today_kst # d.date
    THEN [d |-> [d EXCEPT !.date = today_kst,
                          !.data = IF candidates # <<>>
                                   THEN DayFact(d.date, candidates)
                                   ELSE @],
          branch |-> IF d.date = -1 THEN "first" ELSE "rollover"]
    ELSE [d |-> d, branch |-> "same_day"]

\* d is [loaded, date, data] before the call; the result is d after it and
\* the branch taken.
_check_day_change(d, candidates, now) ==
    LET today_kst == KstDate(now) IN
    IF d.date = -1
    THEN [d |-> [d EXCEPT !.date = today_kst], branch |-> "first"]
    ELSE IF today_kst # d.date
    THEN [d |-> [d EXCEPT !.date = today_kst,
                          !.data = IF candidates # <<>>
                                   THEN DayFact(d.date, candidates)
                                   ELSE @],
          branch |-> "rollover"]
    ELSE [d |-> d, branch |-> "same_day"]

DayState ==
    [loaded |-> _prev_day_loaded, date |-> _prev_day_kst_date,
     data |-> _prev_day_data]

(***************************************************************************)
(* The process after module load, and after start_background_threads(),    *)
(* server.py:993-1019, which the long-lived process runs while loading.    *)
(***************************************************************************)
InitData ==
    [poll_title |-> "", poll_body |-> "", poll_image |-> "",
     candidates |-> <<>>, total_votes |-> 0, last_updated |-> -1,
     error |-> "None"]

\* The threads that run fetch_poll_data: background_fetcher's
\* (server.py:1012-1013) and the one api_refresh starts (server.py:984).
THREADS == {"fetcher", "refresh"}

\* A thread that is not in fetch_poll_data.  payload is `results`, ts the
\* snapshot's timestamp, now_ts, cands and hist the locals of the write step,
\* fileRow the row write_result_file wrote, row the row to enqueue, tok the
\* token response in hand,
\* nreq the results requests of this call, from the caller of authenticate,
\* wake the end of the sleep.
IdleThread ==
    [pc |-> "idle", payload |-> <<>>, ts |-> -1, now_ts |-> 0, cands |-> <<>>,
     hist |-> <<>>, fileRow |-> <<>>, row |-> <<>>, tok |-> 0, nreq |-> 0,
     from |-> "none", wake |-> 0]

\* The module's globals but the observation.
InitStore ==
    /\ threads = [t \in THREADS |-> IdleThread]
    /\ lock = "none"
    /\ _gsheet_lock = "none"
    /\ aux = [api |-> "idle", writer |-> "idle"]
    /\ access_token = 0
    /\ refresh_token = 0
    /\ token_expiry = 0
    /\ current_data = InitData
    /\ vote_history = <<>>
    /\ _last_write_time = 0
    /\ _last_write_snapshot = <<>>
    /\ result_xlsx = <<>>
    /\ _gsheet_queue = <<>>
    /\ sheet = <<>>
    /\ writer_wake = 0
    /\ writer_row = <<>>
    /\ slept = TRUE
    /\ fetched = [n |-> 0, recent |-> <<>>]

InitMemory ==
    /\ InitStore
    /\ obs = [op |-> "init"]

\* The remote session and the day tracker as the module's assignments leave
\* them (server.py:43-53, :477-482); marker is cell A1 of _throttle.
NoSession(marker) ==
    [init |-> FALSE, rc |-> 0, thr |-> marker, sheet |-> <<>>, calls |-> <<>>]

NoDayState == [loaded |-> FALSE, date |-> -1, data |-> NoPrevDay]

\* The process on Vercel: nothing runs at load.
ModuleLoad(marker) ==
    /\ InitMemory
    /\ _gsheet_initialized = FALSE
    /\ _gsheet_row_counter = 0
    /\ throttle_A1 = marker
    /\ _prev_day_kst_date = -1
    /\ _prev_day_data = NoPrevDay
    /\ _prev_day_loaded = FALSE
    /\ day_obs = [load |-> "none", check |-> "none"]

\* The long-lived process: the recovery has run once before the threads start.
start_background_threads(marker, initOk, readOk) ==
    /\ InitMemory
    /\ \E L \in {_load_prev_day_from_gsheet(NoSession(marker), sheet_history,
                                             NoDayState, clock, initOk, readOk)} :
          /\ _gsheet_initialized = L.g.init
          /\ _gsheet_row_counter = L.g.rc
          /\ throttle_A1 = L.g.thr
          /\ _prev_day_kst_date = L.d.date
          /\ _prev_day_data = L.d.data
          /\ _prev_day_loaded = L.d.loaded
          /\ day_obs = [load |-> L.outcome, check |-> "none"]

\* A pass that records the write in the throttle cell before it appends.
WriterPass_MarkerFirst(g, queue, hist, now, initOk, readOk, append, format, markOk) ==
    LET g1 == IF g.init THEN g ELSE _init_gsheet(g, hist, initOk)
        row == Head(queue)
        g2 == IF Len(hist) + Len(g1.sheet) >= 1
              THEN [g1 EXCEPT !.calls = Append(@, "read_last")]
              ELSE g1
        g3 == [g2 EXCEPT !.thr = IF markOk THEN Str(now) ELSE @,
                         !.calls = Append(Append(@, "update_marker"), "append")]
        g4 == [g3 EXCEPT !.sheet = Append(@, row), !.rc = @ + 1,
                         !.calls = Append(@, "format")]
        failed(gx, res, what) ==
            [g |-> IF res = "429" THEN gx ELSE [gx EXCEPT !.init = FALSE],
             queue |-> Tail(queue), sleep |-> IF res = "429" THEN 60 ELSE 5,
             row |-> row, outcome |-> what]
    IN IF ~g1.init
       THEN [g |-> g1, queue |-> queue, sleep |-> 10, row |-> <<>>,
             outcome |-> "no_session"]
       ELSE IF _gsheet_last_row_same_minute(row.ts, TRUE, hist, g1.sheet, readOk)
       THEN [g |-> g2, queue |-> Tail(queue), sleep |-> 0, row |-> row,
             outcome |-> "dedup_skip"]
       ELSE IF append # "ok"
       THEN failed(g3, append,
                   IF append = "429" THEN "append_rate_limited" ELSE "append_error")
       ELSE IF format # "ok"
       THEN failed(g4, format,
                   IF format = "429" THEN "format_rate_limited" ELSE "format_error")
       ELSE [g |-> g4, queue |-> Tail(queue), sleep |-> 0, row |-> row,
             outcome |-> "written"]

(***************************************************************************)
(* _gsheet_writer_thread(), server.py:583-632: one pass of its loop with a *)
(* non-empty queue.  The result is the session, the queue, the time the    *)
(* thread sleeps and what became of the row it took.                       *)
(***************************************************************************)
WriterPass(g, queue, hist, now, initOk, readOk, append, format, markOk) ==
    LET g1 == IF g.init THEN g ELSE _init_gsheet(g, hist, initOk)
        row == Head(queue)
        g2 == IF Len(hist) + Len(g1.sheet) >= 1
              THEN [g1 EXCEPT !.calls = Append(@, "read_last")]
              ELSE g1
        g3 == [g2 EXCEPT !.calls = Append(@, "append")]
        g4 == [g3 EXCEPT !.sheet = Append(@, row), !.rc = @ + 1,
                         !.calls = Append(@, "format")]
        \* the except clause, server.py:623-632
        failed(gx, res, what) ==
            [g |-> IF res = "429" THEN gx ELSE [gx EXCEPT !.init = FALSE],
             queue |-> Tail(queue), sleep |-> IF res = "429" THEN 60 ELSE 5,
             row |-> row, outcome |-> what]
    IN IF ~g1.init
       THEN [g |-> g1, queue |-> queue, sleep |-> 10, row |-> <<>>,
             outcome |-> "no_session"]
       ELSE IF _gsheet_last_row_same_minute(row.ts, TRUE, hist, g1.sheet, readOk)
       THEN [g |-> g2, queue |-> Tail(queue), sleep |-> 0, row |-> row,
             outcome |-> "dedup_skip"]
       ELSE IF append # "ok"
       THEN failed(g3, append,
                   IF append = "429" THEN "append_rate_limited" ELSE "append_error")
       ELSE IF format # "ok"
       THEN failed(g4, format,
                   IF format = "429" THEN "format_rate_limited" ELSE "format_error")
       ELSE [g |-> [g4 EXCEPT !.thr = IF markOk THEN Str(now) ELSE @,
                              !.calls = Append(@, "update_marker")],
             queue |-> Tail(queue), sleep |-> 0, row |-> row,
             outcome |-> "written"]

_gsheet_writer_thread ==
    /\ ~IS_VERCEL
    /\ clock >= writer_wake
    /\ _gsheet_queue # <<>>
    /\ \E initOk \in InitOks(_gsheet_initialized),
          readOk \in BOOLEAN, append \in RemoteResults :
       \E format \in (IF append = "ok" THEN RemoteResults ELSE {"ok"}) :
       \E markOk \in (IF append = "ok" /\ format = "ok" THEN BOOLEAN ELSE {TRUE}) :
          \E r \in {WriterPass(GSession, _gsheet_queue, sheet_history, clock,
                                initOk, readOk, append, format, markOk)} :
             /\ _gsheet_initialized' = r.g.init
             /\ _gsheet_row_counter' = r.g.rc
             /\ throttle_A1' = r.g.thr
             /\ sheet' = r.g.sheet
             /\ _gsheet_queue' = r.queue
             /\ writer_wake' = clock + r.sleep
             /\ obs' = [op |-> "writer", outcome |-> r.outcome, row |-> r.row,
                        calls |-> r.g.calls]
    /\ UNCHANGED <<clock, IS_VERCEL, GOOGLE_CREDS_FILE, concVars, authVars, stateVars, result_xlsx,
                   sheet_history, writer_row, dayVars, slept, fetched>>

\* The same pass in the two steps the queue lock separates.  WriterTake,
\* server.py:587-601: the initialisation when it is due, then popleft()
\* under _gsheet_lock; the lock is released with the row in hand.
WriterTake ==
    /\ ~IS_VERCEL
    /\ clock >= writer_wake
    /\ _gsheet_queue # <<>>
    /\ writer_row = <<>>
    /\ \E initOk \in InitOks(_gsheet_initialized) :
       \E g \in {IF _gsheet_initialized THEN GSession
                  ELSE _init_gsheet(GSession, sheet_history, initOk)} :
          /\ _gsheet_initialized' = g.init
          /\ _gsheet_row_counter' = g.rc
          /\ throttle_A1' = g.thr
          /\ IF g.init
             THEN /\ _gsheet_queue' = Tail(_gsheet_queue)
                  /\ writer_row' = Head(_gsheet_queue)
                  /\ writer_wake' = writer_wake
             ELSE /\ UNCHANGED <<_gsheet_queue, writer_row>>
                  /\ writer_wake' = clock + 10
          /\ obs' = [op |-> "writer_take", taken |-> g.init, calls |-> g.calls]
    /\ UNCHANGED <<clock, IS_VERCEL, GOOGLE_CREDS_FILE, concVars, authVars, stateVars, result_xlsx,
                   sheet_history, sheet, dayVars, slept, fetched>>

\* WriterSend, server.py:603-632: the remote calls for the row in hand, made
\* without the lock.
WriterSend ==
    /\ writer_row # <<>>
    /\ \E readOk \in BOOLEAN, append \in RemoteResults :
       \E format \in (IF append = "ok" THEN RemoteResults ELSE {"ok"}) :
       \E markOk \in (IF append = "ok" /\ format = "ok" THEN BOOLEAN ELSE {TRUE}) :
          \E r \in {WriterPass(GSession, <<writer_row>>, sheet_history, clock,
                                TRUE, readOk, append, format, markOk)} :
             /\ _gsheet_initialized' = r.g.init
             /\ _gsheet_row_counter' = r.g.rc
             /\ throttle_A1' = r.g.thr
             /\ sheet' = r.g.sheet
             /\ writer_row' = <<>>
             /\ writer_wake' = clock + r.sleep
             /\ obs' = [op |-> "writer", outcome |-> r.outcome, row |-> r.row,
                        calls |-> r.g.calls]
    /\ UNCHANGED <<clock, IS_VERCEL, GOOGLE_CREDS_FILE, concVars, authVars, stateVars, result_xlsx,
                   _gsheet_queue, sheet_history, dayVars, slept, fetched>>

(***************************************************************************)
(* The inputs of the long-lived process.                                   *)
(***************************************************************************)
MaxClock == 210
StartClock == 2 * WRITE_INTERVAL + 30
Delays == {30, 60}

AllOk == <<"ok", "ok", "ok", "ok", "ok">>
TickScripts == {AllOk, <<"bad">>, <<"unauth", "ok", "ok">>}

Payloads ==
    { <<Cand(DORAN, 100), Cand(GUMA, 90)>>,
      <<Cand(" T1 Doran ", 130), Cand(GUMA, 140), Cand("Faker", 5)>>,
      <<Cand(DORAN, 110), Cand("Faker", 70)>>,
      <<>>,
      EmptyDict }

Metas == {"None", "Poll"}

\* A row an earlier run of the tracker left in the sheet.
OldRow(t, d, g) == HistRow(Label(t), Str(d), Str(g))

\* The day tracker after a call, and what the call did.
SetDay(d, load, check) ==
    /\ _prev_day_kst_date' = d.date
    /\ _prev_day_data' = d.data
    /\ _prev_day_loaded' = d.loaded
    /\ day_obs' = [load |-> load, check |-> check]

\* background_fetcher(), server.py:876-884: one pass of its loop, with the
\* upstream's answers drawn from scripts and payloads.
TickWith(scripts, payloads, metas) ==
    /\ ~IS_VERCEL
    /\ slept
    /\ \E script \in scripts :
       \E ok \in {fetch_poll_results(Ctx(script), 1, 1, clock).ok} :
       \E payload \in (IF ok THEN payloads ELSE {EmptyDict}),
          meta \in (IF ok THEN metas ELSE {"None"}) :
       LET writes == /\ ok
                     /\ payload # EmptyDict
                     /\ clock - _last_write_time >= WRITE_INTERVAL
                     /\ TrackedCount(payload) >= 2
       IN \E fileOk \in (IF writes THEN BOOLEAN ELSE {TRUE}),
             readOk \in (IF writes /\ _gsheet_initialized THEN BOOLEAN ELSE {TRUE}) :
          \E k \in {_check_day_change(DayState, current_data.candidates, clock)} :
             /\ SetDay(k.d, day_obs.load, k.branch)
             /\ fetch_poll_data(GSession, script, payload, meta, fileOk, TRUE,
                                readOk, "ok")
    /\ slept' = FALSE
    /\ UNCHANGED <<clock, IS_VERCEL, GOOGLE_CREDS_FILE, concVars>>

Tick == TickWith(TickScripts, Payloads, Metas)

\* time.sleep(FETCH_INTERVAL) and the writer's sleeps: time passes.
AdvanceBy(delays, max) ==
    \E d \in delays :
        /\ clock + d <= max
        /\ clock' = clock + d
        /\ slept' = TRUE
        /\ obs' = [op |-> "advance"]
        /\ UNCHANGED <<IS_VERCEL, GOOGLE_CREDS_FILE, concVars, authVars, stateVars, sinkVars, dayVars, fetched>>

Advance == AdvanceBy(Delays, MaxClock)

Init ==
    /\ clock = StartClock
    /\ IS_VERCEL = FALSE
    /\ GOOGLE_CREDS_FILE = TRUE
    /\ sheet_history \in {<<>>, <<OldRow(StartClock - 30, 80, 70)>>}
    /\ \E initOk \in InitOks(FALSE) : start_background_threads(NoSheet, initOk, TRUE)

Next == Tick \/ _gsheet_writer_thread \/ Advance

Spec == Init /\ [][Next]_vars

\* The remote calls of a call log.
CallsOf(calls) == {calls[i] : i \in 1..Len(calls)}

\* C16: in long-lived mode a successful tick performs the write step iff
\* now - _last_write_time >= WRITE_INTERVAL; the one decision governs both
\* sinks (a tick that is not due touches neither, a due tick that writes the
\* file row has built the remote row too) and reads no remote marker; the
\* rows of the file are at least WRITE_INTERVAL seconds apart.
C16_LocalTimerGovernsBothSinks ==
    /\ [](\A i, j \in 1..Len(result_xlsx) :
             i < j => result_xlsx[j].ts - result_xlsx[i].ts >= WRITE_INTERVAL)
    /\ [][(obs'.op = "fetch_poll_data" /\ obs'.ok) =>
             /\ obs'.due <=> (clock - _last_write_time >= WRITE_INTERVAL)
             /\ "read_marker" \notin CallsOf(obs'.calls)
             /\ obs'.due => _last_write_time' = clock
             /\ ~obs'.due => /\ _last_write_time' = _last_write_time
                             /\ result_xlsx' = result_xlsx
                             /\ _gsheet_queue' = _gsheet_queue
                             /\ obs'.built = <<>>
             /\ obs'.fileRow # <<>> => obs'.built # <<>>
             /\ obs'.enqueued => obs'.due]_vars

\* A tick wrote a second row to both sinks, after a tick that was not due.
C16_SecondWrite ==
    /\ obs.op = "fetch_poll_data" /\ obs.ok /\ obs.due
    /\ obs.fileRow # <<>> /\ obs.enqueued
    /\ Len(result_xlsx) >= 2
    /\ fetched.n >= 3

(***************************************************************************)
(* The queue between the fetcher and the writer thread: ticks that are all *)
(* due, more of them than the queue holds, and the writer's pass in its    *)
(* two steps.                                                              *)
(***************************************************************************)
MaxQueueTicks == 4

\* One payload: the rows of the queue differ by their time.
QueuePayloads == { <<Cand(DORAN, 100), Cand(GUMA, 90)>> }

QueueTick == TickWith({AllOk}, QueuePayloads, {"None"})

QueueAdvance ==
    AdvanceBy({WRITE_INTERVAL}, StartClock + (MaxQueueTicks - 1) * WRITE_INTERVAL)

NextQueue == QueueTick \/ WriterTake \/ WriterSend \/ QueueAdvance

SpecQueue == Init /\ [][NextQueue]_vars

\* C18: the queue never holds more than its capacity; an enqueue into a full
\* queue drops the oldest row and keeps the new one behind the others, in
\* their order; the writer changes the queue only by removing its head, and
\* holds no row of the queue while it makes its remote calls.
C18_BoundedQueueDropsOldest ==
    /\ [](Len(_gsheet_queue) <= QueueCap)
    /\ [][
          /\ (obs'.op = "fetch_poll_data" /\ obs'.ok /\ obs'.enqueued) =>
                _gsheet_queue' = IF Len(_gsheet_queue) = QueueCap
                                 THEN Tail(_gsheet_queue) \o <<obs'.built>>
                                 ELSE _gsheet_queue \o <<obs'.built>>
          /\ (obs'.op = "writer_take" /\ obs'.taken) =>
                /\ _gsheet_queue' = Tail(_gsheet_queue)
                /\ writer_row' = Head(_gsheet_queue)
          /\ (obs'.op = "writer_take" /\ ~obs'.taken) =>
                _gsheet_queue' = _gsheet_queue
          /\ obs'.op = "writer" => _gsheet_queue' = _gsheet_queue
       ]_vars

\* A tick enqueued into a full queue while the writer thread had a row in
\* hand, between its take and its remote calls.
C18_EnqueuedIntoFullQueue ==
    /\ obs.op = "fetch_poll_data" /\ obs.enqueued
    /\ writer_row # <<>>
    /\ Len(_gsheet_queue) = QueueCap
    /\ fetched.n > QueueCap + 1

(***************************************************************************)
(* The long-lived process started without credentials for the remote sink, *)
(* over more due ticks than the queue holds.                               *)
(***************************************************************************)
NoCredsPayloads ==
    { <<Cand(DORAN, 100), Cand(GUMA, 90)>>,
      <<Cand(DORAN, 110), Cand("Faker", 70)>> }

InitNoCreds ==
    /\ clock = StartClock
    /\ IS_VERCEL = FALSE
    /\ GOOGLE_CREDS_FILE = FALSE
    /\ sheet_history \in {<<>>, <<OldRow(StartClock - 30, 80, 70)>>}
    /\ \E initOk \in InitOks(FALSE) : start_background_threads(NoSheet, initOk, TRUE)

NoCredsTick == TickWith({AllOk, <<"bad">>}, NoCredsPayloads, {"None"})

NextNoCreds == NoCredsTick \/ _gsheet_writer_thread \/ QueueAdvance

SpecNoCreds == InitNoCreds /\ [][NextNoCreds]_vars

\* The session the process would have with credentials, initialised.
CredSession ==
    [GSession EXCEPT !.init = TRUE, !.thr = Str(0), !.rc = 1 + Len(sheet_history)]

\* What a tick leaves in memory and in the local file.
LocalPart(o) ==
    [cd |-> o.cd, hist |-> o.hist, lwt |-> o.lwt, lws |-> o.lws, file |-> o.file,
     at |-> o.at, rt |-> o.rt, exp |-> o.exp]

\* C20: without credentials the remote sink stays disabled and nothing else
\* changes: the session is never initialised and no row is ever appended,
\* the writer's pass ends with the queue as it was, the queue stays within
\* its bound, and from every state a tick leaves in memory and in the local
\* file exactly what it would leave with an initialised remote session.
C20_RemoteSinkDisabledOnly ==
    /\ [](/\ ~_gsheet_initialized
          /\ sheet = <<>>
          /\ throttle_A1 = NoSheet
          /\ Len(_gsheet_queue) <= QueueCap)
    /\ [](\A script \in {AllOk, <<"bad">>}, payload \in NoCredsPayloads,
             fileOk \in BOOLEAN, readOk \in BOOLEAN :
             LocalPart(FetchOutcome(GSession, script, payload, "None", fileOk,
                                    FALSE, TRUE, "ok"))
               = LocalPart(FetchOutcome(CredSession, script, payload, "None",
                                        fileOk, TRUE, readOk, "ok")))
    /\ [][
          /\ obs'.op = "writer" =>
                /\ obs'.outcome = "no_session"
                /\ _gsheet_queue' = _gsheet_queue
                /\ "append" \notin CallsOf(obs'.calls)
          /\ (obs'.op = "fetch_poll_data" /\ obs'.ok) =>
                /\ current_data'.last_updated = clock
                /\ vote_history' # <<>>
                /\ vote_history'[Len(vote_history')].timestamp = clock
                /\ obs'.due <=> (clock - _last_write_time >= WRITE_INTERVAL)
                /\ obs'.fileRow # <<>> =>
                      result_xlsx' = Append(result_xlsx, obs'.fileRow)
                /\ "append" \notin CallsOf(obs'.calls)
       ]_vars

\* Without credentials the local file has more rows than the queue holds,
\* the queue is full and the writer has just given up a pass.
C20_LocalRowsQueueFull ==
    /\ ~GOOGLE_CREDS_FILE
    /\ Len(result_xlsx) > QueueCap
    /\ Len(_gsheet_queue) = QueueCap
    /\ obs.op = "writer"

(***************************************************************************)
(* The long-lived process with an upstream that fails in each way: the     *)
(* login chain, the results request (500), a 401 followed by a failed      *)
(* refresh and a failed login.  The writer thread does not run.            *)
(***************************************************************************)
SoftScripts == {AllOk, <<"bad">>, <<"unauth", "bad">>, <<"timeout">>}

SoftPayloads ==
    { <<Cand(DORAN, 100), Cand(GUMA, 90)>>,
      <<Cand(DORAN, 110), Cand("Faker", 70)>>,
      <<Cand(DORAN, 120), Cand(GUMA, 125)>> }

SoftTick == TickWith(SoftScripts, SoftPayloads, Metas)

NextSoft == SoftTick \/ Advance

SpecSoft == Init /\ [][NextSoft]_vars

FETCH_FAILED == "Failed to fetch poll results. Retrying..."

\* C14: a fetch that gets no results leaves the history, the current data
\* but its error field, the throttle state and both sinks as they were, and
\* leaves an error set.
C14_FailedFetchFrame ==
    [][(obs'.op = "fetch_poll_data" /\ ~obs'.ok) =>
          /\ vote_history' = vote_history
          /\ current_data' = [current_data EXCEPT !.error = current_data'.error]
          /\ current_data'.error # "None"
          /\ _last_write_time' = _last_write_time
          /\ _last_write_snapshot' = _last_write_snapshot
          /\ throttle_A1' = throttle_A1
          /\ result_xlsx' = result_xlsx
          /\ _gsheet_queue' = _gsheet_queue
          /\ sheet' = sheet
          /\ sheet_history' = sheet_history]_vars

\* A fetch failed after earlier fetches had filled the state and written.
C14_FailedAfterData ==
    /\ obs.op = "fetch_poll_data" /\ ~obs.ok
    /\ vote_history # <<>>
    /\ current_data.candidates # <<>>
    /\ result_xlsx # <<>>
    /\ current_data.error # "None"

\* C15: the error field is the message of the most recent soft failure: a
\* successful fetch clears it (whatever its sink writes did), a failed one
\* leaves the message of its own failure, the login's when its login failed
\* and the fetch's otherwise.
C15_ErrorIsLatestFailure ==
    [][obs'.op = "fetch_poll_data" =>
          current_data'.error =
              IF obs'.ok THEN "None"
              ELSE IF obs'.authFailed THEN "Authentication failed"
              ELSE FETCH_FAILED]_vars

\* The part of C15 the code keeps: success clears the field, a failed login
\* sets its message, and a failed fetch sets the fetch message when no error
\* was there.
C15_ErrorSetWhenAbsent ==
    [][obs'.op = "fetch_poll_data" =>
          current_data'.error =
              IF obs'.ok THEN "None"
              ELSE IF obs'.authFailed THEN "Authentication failed"
              ELSE IF current_data.error = "None" THEN FETCH_FAILED
              ELSE current_data.error]_vars

(***************************************************************************)
(* Claims checked under Spec.                                              *)
(***************************************************************************)
Min(a, b) == IF a <= b THEN a ELSE b

SeqRows(q) == {q[i] : i \in 1..Len(q)}

\* C1: a row whose append the remote sink refused with a rate-limit error is
\* still pending (in the queue) when the writer thread backs off.
C1_RateLimitedRowRetained ==
    (obs.op = "writer" /\ obs.outcome = "append_rate_limited")
        => obs.row \in SeqRows(_gsheet_queue)

C1_RateLimited ==
    obs.op = "writer" /\ obs.outcome = "append_rate_limited"

DueWithoutPair(o) == o.op = "fetch_poll_data" /\ o.due /\ o.tracked < 2

\* C3: a due write with fewer than two tracked candidates appends
\* no row to the file, enqueues or appends none to the remote sink and
\* leaves _last_write_time and _last_write_snapshot as they were.
C3_NoOpWrite ==
    [][DueWithoutPair(obs') =>
          /\ result_xlsx' = result_xlsx
          /\ _gsheet_queue' = _gsheet_queue
          /\ sheet' = sheet
          /\ _last_write_time' = _last_write_time
          /\ _last_write_snapshot' = _last_write_snapshot]_vars

\* What holds of C3's case: a due write with fewer than two tracked
\* candidates appends no row to the file, enqueues or appends none to the
\* remote sink and leaves _last_write_snapshot as it was, but
\* _last_write_time becomes the time of the tick.
C3_NoRowButTimeAdvances ==
    [][DueWithoutPair(obs') =>
          /\ result_xlsx' = result_xlsx
          /\ _gsheet_queue' = _gsheet_queue
          /\ sheet' = sheet
          /\ _last_write_snapshot' = _last_write_snapshot
          /\ _last_write_time' = clock]_vars

C3_DueWithoutPair == DueWithoutPair(obs)

\* C4: after N successful fetches vote_history holds the min(N, capacity)
\* snapshots appended last, in the order of their appending.
C4_RingBuffer ==
    /\ Len(vote_history) = Min(fetched.n, HistoryCap)
    /\ vote_history = LastN(fetched.recent, Min(fetched.n, HistoryCap))

C4_Evicted ==
    /\ fetched.n > HistoryCap
    /\ Len(vote_history) = HistoryCap

\* C5: no row this process appends to the remote sheet has the minute of
\* the row above it.
C5_NoSameMinuteRow ==
    \A i \in 1..Len(sheet) :
        LET col == ColumnA(sheet_history, sheet)
            k == Len(sheet_history) + i
        IN k > 1 => minute_key(col[k]) # minute_key(col[k - 1])

\* C7: the diff baseline is the tracked pair of a write that was persisted
\* (a row of the file or of the remote sheet) or is still pending in the
\* queue; a write that failed or was skipped is not the baseline.
C7_BaselineWasPersisted ==
    _last_write_snapshot # <<>> =>
        \E r \in SeqRows(result_xlsx) \cup SeqRows(sheet) \cup SeqRows(_gsheet_queue) :
            r.doran = _last_write_snapshot.doran /\ r.guma = _last_write_snapshot.guma

\* C25: in long-lived mode a tick makes no call to the remote sink: its
\* write step only builds the row and puts it in the queue.
C25_TickMakesNoRemoteCall ==
    (obs.op = "fetch_poll_data" /\ ~IS_VERCEL) => obs.calls = <<>>

C25_TickEnqueued ==
    obs.op = "fetch_poll_data" /\ ~IS_VERCEL /\ obs.ok /\ obs.enqueued

\* The remote calls of one pass of the writer, in their order.
WRITER_ORDER == <<"init", "read_last", "append", "format", "update_marker">>

Rank(call) == CHOOSE i \in 1..Len(WRITER_ORDER) : WRITER_ORDER[i] = call

InWriterOrder(calls) ==
    \A i, j \in 1..Len(calls) : i < j => Rank(calls[i]) < Rank(calls[j])

C27_FailedRowRetried ==
    (obs.op = "writer" /\ obs.outcome = "append_error") =>
        /\ ~_gsheet_initialized
        /\ obs.row \in SeqRows(_gsheet_queue)

C27_AppendFailed ==
    /\ obs.op = "writer"
    /\ obs.outcome = "append_error"
    /\ ~_gsheet_initialized

(***************************************************************************)
(* SpecAuth: the session under repeated calls of fetch_poll_results.       *)
(***************************************************************************)
\* The long-lived process without remote-sink credentials.
InitAuth ==
    /\ clock = 0
    /\ IS_VERCEL = FALSE
    /\ GOOGLE_CREDS_FILE = TRUE
    /\ sheet_history = <<>>
    /\ start_background_threads(NoSheet, FALSE, TRUE)

AuthDelays == {LEASE, LEASE + 60}

AuthAdvance ==
    \E d \in AuthDelays :
        /\ clock + d <= MaxAuthClock
        /\ clock' = clock + d
        /\ obs' = [op |-> "advance"]
        /\ UNCHANGED <<IS_VERCEL, GOOGLE_CREDS_FILE, concVars, authVars, stateVars, sinkVars, dayVars, slept,
                       fetched>>

CallFetchPollResults ==
    \E script \in Scripts, tok \in TokenIds, withRt \in BOOLEAN :
        \E c \in {fetch_poll_results(Ctx(script), tok,
                                      IF withRt THEN tok ELSE 0, clock)} :
           /\ access_token' = c.at
           /\ refresh_token' = c.rt
           /\ token_expiry' = c.exp
           /\ current_data' = [current_data EXCEPT !.error = c.error]
           /\ obs' = [op |-> "fetch_poll_results", ok |-> c.ok,
                      nLogin |-> c.nLogin, nRefresh |-> c.nRefresh,
                      nResults |-> c.nResults]
           /\ UNCHANGED <<clock, IS_VERCEL, GOOGLE_CREDS_FILE, concVars, vote_history, _last_write_time,
                          _last_write_snapshot, sinkVars, dayVars, slept, fetched>>

\* The step of the login chain (2: login, 3: authorize, 4: token exchange)
\* whose answer is the first that is not a 200 with a well-formed body, 0
\* when there is none, the first request having been answered.
FailingStep(script) ==
    IF Peek(script, 1) = "timeout" THEN 0
    ELSE IF Peek(script, 2) # "ok" THEN 2
    ELSE IF Peek(script, 3) # "ok" THEN 3
    ELSE IF Peek(script, 4) # "ok" THEN 4
    ELSE 0

\* One call of authenticate(), server.py:75-162 (ensure_auth's and
\* try_refresh_token's login); failing is the FailingStep of its answers.
CallAuthenticate ==
    \E script \in Scripts, tok \in TokenIds, withRt \in BOOLEAN :
        \E c \in {authenticate(Ctx(script), tok, IF withRt THEN tok ELSE 0, clock)} :
           /\ access_token' = c.at
           /\ refresh_token' = c.rt
           /\ token_expiry' = c.exp
           /\ current_data' = [current_data EXCEPT !.error = c.error]
           /\ obs' = [op |-> "authenticate", ok |-> c.ok,
                      failing |-> FailingStep(script), sent |-> c.sent]
           /\ UNCHANGED <<clock, IS_VERCEL, GOOGLE_CREDS_FILE, concVars, vote_history, _last_write_time,
                          _last_write_snapshot, sinkVars, dayVars, slept, fetched>>

\* The answers script makes a login succeed: the first request is
\* answered and the three posts return 200 with the expected key.
LoginSucceeds(script) ==
    /\ Peek(script, 1) # "timeout"
    /\ \A i \in 2..4 : Peek(script, i) = "ok"

\* One call of try_refresh_token(), server.py:173-202 (fetch_poll_results
\* calls it on a 401).  The observation keeps whether a refresh token was
\* stored, whether the refresh request is answered by a 200 with a JSON
\* body, and whether the answers after it let a login succeed.
CallTryRefreshToken ==
    \E script \in Scripts, tok \in TokenIds, withRt \in BOOLEAN :
        \E c \in {try_refresh_token(Ctx(script), tok,
                                     IF withRt THEN tok ELSE 0, clock)} :
           /\ access_token' = c.at
           /\ refresh_token' = c.rt
           /\ token_expiry' = c.exp
           /\ current_data' = [current_data EXCEPT !.error = c.error]
           /\ obs' = [op |-> "try_refresh_token", ok |-> c.ok,
                      nLogin |-> c.nLogin,
                      hadRt |-> refresh_token # 0,
                      refreshOk |-> Peek(script, 1) = "ok",
                      loginOk |-> LoginSucceeds(IF refresh_token # 0
                                                THEN Drop(script, 1)
                                                ELSE script)]
           /\ UNCHANGED <<clock, IS_VERCEL, GOOGLE_CREDS_FILE, concVars, vote_history, _last_write_time,
                          _last_write_snapshot, sinkVars, dayVars, slept, fetched>>

NextAuth ==
    AuthAdvance \/ CallFetchPollResults \/ CallAuthenticate \/ CallTryRefreshToken

SpecAuth == InitAuth /\ [][NextAuth]_vars

\* C2: one call of fetch_poll_results refreshes the token at most once and
\* sends the results request at most twice.
C2_AtMostOneRefresh ==
    obs.op = "fetch_poll_results" => obs.nRefresh <= 1 /\ obs.nResults <= 2

\* C13: try_refresh_token logs in exactly when no refresh token is stored or
\* the refresh request fails; it returns true iff the refresh or the fallback
\* login succeeded; a successful refresh sets the lease to now + 25 minutes
\* and performs no login.
C13_RefreshOrFallback ==
    [][obs'.op = "try_refresh_token" =>
          /\ obs'.nLogin \in {0, 1}
          /\ obs'.nLogin = 1 <=> (~obs'.hadRt \/ ~obs'.refreshOk)
          /\ obs'.ok <=> \/ obs'.hadRt /\ obs'.refreshOk
                         \/ obs'.nLogin = 1 /\ obs'.loginOk
          /\ (obs'.hadRt /\ obs'.refreshOk) =>
                 /\ token_expiry' = clock + 25 * 60
                 /\ obs'.nLogin = 0]_vars

\* A refresh request failed while a refresh token was stored and the
\* fallback login succeeded.
C13_FellBackToLogin ==
    /\ obs.op = "try_refresh_token"
    /\ obs.hadRt /\ ~obs.refreshOk
    /\ obs.nLogin = 1 /\ obs.ok

\* C12: a login whose chain fails at a step stops there (no request after
\* it), returns false, records the error and leaves the stored session as
\* it was.
C12_FailedLoginKeepsSession ==
    [][(obs'.op = "authenticate" /\ obs'.failing # 0) =>
          /\ ~obs'.ok
          /\ obs'.sent = obs'.failing
          /\ current_data'.error = "Authentication failed"
          /\ access_token' = access_token
          /\ refresh_token' = refresh_token
          /\ token_expiry' = token_expiry]_vars

C12_FailedWithSession ==
    /\ obs.op = "authenticate"
    /\ obs.failing = 3
    /\ access_token # 0
    /\ current_data.error = "Authentication failed"

(***************************************************************************)
(* SpecVercel: the stateless deployment.  Nothing runs at load; every      *)
(* request to /api/current recovers yesterday's fact once per process and  *)
(* fetches on demand, writing to the remote sheet in the calling context.  *)
(***************************************************************************)
VercelSpan == 60
VercelStart == 2 * DAY + StartClock
VercelDelays == {WRITE_INTERVAL}

Grouped == <<"2", ".", "5", "9", "6", ".", "6", "9", "8">>
Malformed == <<"2", ",", "5", ".", "1">>

\* Sheets earlier instances left: empty; one row of yesterday with grouped
\* digits; two rows of yesterday, the later with a malformed count; a row of
\* yesterday, an unreadable label and a row of the current minute; a row of
\* the day before yesterday; a row of yesterday in the rollover zone whose
\* label is of the day before, then a row of today whose label is of
\* yesterday; two rows of yesterday, the later with two cells only.
Histories ==
    { <<>>,
      <<HistRow(Label(VercelStart - DAY), Grouped, Str(300))>>,
      <<OldRow(VercelStart - DAY - 60, 500, 300),
        HistRow(Label(VercelStart - DAY), Malformed, Str(300))>>,
      <<OldRow(VercelStart - DAY, 300, 500),
        HistRow(-1, Str(1), Str(1)),
        OldRow(VercelStart - 30, 80, 70)>>,
      <<OldRow(VercelStart - 2 * DAY, 70, 60)>>,
      <<OldRow(DAY - KST_OFFSET + 600, 400, 450),
        OldRow(2 * DAY - KST_OFFSET + 600, 410, 460)>>,
      <<OldRow(VercelStart - DAY - 60, 500, 300),
        [ts |-> Label(VercelStart - DAY), cells |-> <<Str(510)>>]>> }

VercelPayloads ==
    { <<Cand(DORAN, 100), Cand(GUMA, 90)>>,
      <<Cand(DORAN, 110), Cand("Faker", 70)>>,
      EmptyDict }

InitVercel ==
    /\ clock = VercelStart
    /\ IS_VERCEL = TRUE
    /\ GOOGLE_CREDS_FILE = TRUE
    /\ sheet_history \in Histories
    /\ \E marker \in {NoSheet, Str(VercelStart - 30)} : ModuleLoad(marker)

\* api_current(), server.py:900-971, as far as it changes the state.
api_current ==
    /\ IS_VERCEL
    /\ \E loadInit \in InitOks(_prev_day_loaded) :
       \E loadRead \in (IF _prev_day_loaded \/ ~loadInit THEN {TRUE} ELSE BOOLEAN) :
       \E L \in {_load_prev_day_from_gsheet(GSession, sheet_history, DayState,
                                            clock, loadInit, loadRead)} :
       \E load \in {IF L.outcome = "already" THEN day_obs.load ELSE L.outcome},
          g \in {[L.g EXCEPT !.calls = <<>>]} :
          IF \/ current_data.last_updated = -1
             \/ clock - current_data.last_updated > 5
          THEN \E script \in {AllOk, <<"bad">>} :
               \E payload \in (IF script = AllOk THEN VercelPayloads ELSE {EmptyDict}),
                  initOk \in InitOks(g.init),
                  readOk \in BOOLEAN, append \in {"ok", "err"} :
               \E k \in {_check_day_change(L.d, current_data.candidates, clock)} :
                  /\ SetDay(k.d, load, k.branch)
                  /\ fetch_poll_data(g, script, payload, "None", TRUE, initOk,
                                     readOk, append)
          ELSE /\ SetDay(L.d, load, day_obs.check)
               /\ _gsheet_initialized' = g.init
               /\ _gsheet_row_counter' = g.rc
               /\ throttle_A1' = g.thr
               /\ obs' = [op |-> "api_current"]
               /\ UNCHANGED <<authVars, stateVars, result_xlsx, _gsheet_queue,
                              sheet_history, sheet, writer_wake, writer_row,
                              fetched>>
    /\ UNCHANGED <<clock, IS_VERCEL, GOOGLE_CREDS_FILE, concVars, slept>>

VercelAdvance == AdvanceBy(VercelDelays, VercelStart + VercelSpan)

NextVercel == api_current \/ VercelAdvance

SpecVercel == InitVercel /\ [][NextVercel]_vars

\* A numeral with a grouping comma after its first digit.
Grouping(t) == <<Head(Str(t)), ",">> \o Tail(Str(t))

\* What cell A1 of _throttle can hold when an instance starts: no worksheet,
\* an empty cell, text that is no number, a text float() rejects, and the
\* times of earlier writes as the tracker (str(int(time.time()))) or a
\* person (padding, grouping, a fraction) wrote them.
MarkerCells ==
    { NoSheet,
      <<>>,
      <<"n", "a">>,
      Str(VercelStart) \o <<".", "0", ".", "1">>,
      Str(VercelStart - 30),
      Str(VercelStart - WRITE_INTERVAL),
      Str(VercelStart),
      Str(VercelStart - WRITE_INTERVAL) \o <<".", "5">>,
      Grouping(VercelStart - 30),
      <<" ">> \o Str(VercelStart - 30) \o <<" ">> }

InitThrottle ==
    /\ clock = VercelStart
    /\ IS_VERCEL = TRUE
    /\ GOOGLE_CREDS_FILE = TRUE
    /\ sheet_history = <<>>
    /\ \E marker \in MarkerCells : ModuleLoad(marker)

SpecThrottle == InitThrottle /\ [][NextVercel]_vars

\* The cell holds the numeral of a time less than WRITE_INTERVAL seconds
\* before now (or after now), whole or with a fraction of .0 or .5.
Younger(cell, now) ==
    \E t \in (now - WRITE_INTERVAL)..(now + WRITE_INTERVAL) :
        \/ /\ t > now - WRITE_INTERVAL
           /\ Remove(StripText(cell), ",") \in
                  {Str(t), Str(t) \o <<".">>, Str(t) \o <<".", "0">>}
        \/ Remove(StripText(cell), ",") = Str(t) \o <<".", "5">>

\* C17 as stated: in stateless mode the decision is to write iff the marker
\* is absent, empty, no number, or at least WRITE_INTERVAL seconds old.
C17_WriteIffMarkerAllows ==
    [][(obs'.op = "fetch_poll_data" /\ obs'.ok) =>
          (obs'.due <=> ~Younger(throttle_A1, clock))]_vars

\* C17: in stateless mode the decision is to write iff the marker could not
\* be read (no remote session, or the read raised) or it is absent, empty,
\* no number, or at least WRITE_INTERVAL seconds old; an invocation that
\* read a younger marker appends no row and leaves the marker alone.
C17_WriteIffMarkerAllowsOrUnread ==
    [][(obs'.op = "fetch_poll_data" /\ obs'.ok) =>
          /\ obs'.due <=> \/ obs'.why \in {"no_session", "read_error"}
                          \/ ~Younger(throttle_A1, clock)
          /\ obs'.why = "no_session" => ~_gsheet_initialized'
          /\ ~obs'.due => /\ ~obs'.appended
                          /\ sheet' = sheet
                          /\ throttle_A1' = throttle_A1]_vars

\* An invocation read a marker younger than WRITE_INTERVAL and did not write.
C17_YoungMarkerBlocks ==
    /\ obs.op = "fetch_poll_data" /\ obs.ok /\ ~obs.due
    /\ obs.why = "age"
    /\ obs.tracked >= 2
    /\ Younger(throttle_A1, clock)

Called(o, what) == \E i \in 1..Len(o.calls) : o.calls[i] = what

\* C6: in direct mode a write whose remote append succeeded has also issued
\* the format call and set the throttle marker to the current time.
C6_DirectWriteFormatsAndMarks ==
    (obs.op = "fetch_poll_data" /\ obs.appended)
        => /\ Called(obs, "format")
           /\ throttle_A1 = Str(clock)

WellFormedRowOf(r, day) ==
    /\ r.ts # -1
    /\ KstDateOfLabel(r.ts) = day
    /\ Len(r.cells) >= 3
    /\ parse_int(r.cells[1]).ok
    /\ parse_int(r.cells[3]).ok

\* C10: when the recovery has read the sheet and some row of yesterday has
\* well-formed counts, the previous-day fact is loaded for yesterday, even
\* if a later row of yesterday has malformed counts.
C10_MalformedRowSkipped ==
    (/\ day_obs.load \notin {"none", "no_session", "read_error"}
     /\ \E i \in 1..Len(sheet_history) :
           WellFormedRowOf(sheet_history[i], KstDate(clock - DAY)))
        => /\ _prev_day_data.loaded
           /\ _prev_day_data.date = KstDate(clock - DAY)

\* The recovery got as far as reading the sheet.
SheetRead == day_obs.load \notin {"none", "no_session", "read_error"}

\* The rows of the sheet whose label, taken from +07:00 to +09:00, is of day.
RowsOfDay(day) ==
    {i \in 1..Len(sheet_history) :
        /\ sheet_history[i].ts # -1
        /\ KstDate(sheet_history[i].ts - VN_OFFSET) = day}

MaxOf(S) == CHOOSE x \in S : \A y \in S : y <= x

CountsParse(r) ==
    /\ Len(r.cells) >= 3
    /\ parse_int(r.cells[1]).ok
    /\ parse_int(r.cells[3]).ok

\* The fact f is the one of day with the counts of row r.
FactOfRow(f, day, r) ==
    LET doran == parse_int(r.cells[1]).val
        guma == parse_int(r.cells[3]).val
    IN /\ f.loaded
       /\ f.date = day
       /\ f.winner_votes = (IF doran >= guma THEN doran ELSE guma)
       /\ f.runnerup_votes = (IF doran >= guma THEN guma ELSE doran)
       /\ f.winner = (IF doran >= guma THEN "T1 Doran" ELSE "HLE Gumayusi")
       /\ f.runnerup = (IF doran >= guma THEN "HLE Gumayusi" ELSE "T1 Doran")
       /\ f.diff = f.winner_votes - f.runnerup_votes

MaxDays == 2
MaxRefreshed == 3            \* no refresh once this many snapshots were fetched
DayStart == DAY - KST_OFFSET - 30
DayDelays == {DAY}

DayPayloads ==
    { <<Cand("A", 500), Cand("B", 300)>>,
      <<Cand("B", 300), Cand("A", 300), Cand("C", 100)>>,
      <<Cand("A", 500)>>,
      <<>> }

RefreshPayloads == {<<Cand("A", 500), Cand("B", 300)>>}

InitDay ==
    /\ clock = DayStart
    /\ IS_VERCEL = FALSE
    /\ GOOGLE_CREDS_FILE = TRUE
    /\ sheet_history = <<>>
    /\ \E initOk \in InitOks(FALSE) : start_background_threads(NoSheet, initOk, TRUE)

DayTick == TickWith({AllOk, <<"bad">>}, DayPayloads, {"None"})

\* api_refresh(), server.py:981-985: fetch_poll_data() alone.
api_refresh ==
    /\ fetched.n < MaxRefreshed
    /\ \E payload \in RefreshPayloads :
          fetch_poll_data(GSession, AllOk, payload, "None", TRUE, TRUE, TRUE, "ok")
    /\ UNCHANGED <<clock, IS_VERCEL, GOOGLE_CREDS_FILE, concVars, dayVars, slept>>

DayAdvance == AdvanceBy(DayDelays, DayStart + MaxDays * DAY)

NextDay == DayTick \/ api_refresh \/ DayAdvance

SpecDay == InitDay /\ [][NextDay]_vars

\* A step that is one pass of background_fetcher.
IsTickStep == slept /\ ~slept'

DayChanged ==
    /\ IsTickStep
    /\ _prev_day_kst_date # -1
    /\ KstDate(clock) # _prev_day_kst_date

\* cs[i] is first, and cs[j] second, when cs is ordered by votes descending
\* with candidates of equal votes in list order.
IsWinner(cs, i) ==
    \A k \in 1..Len(cs) :
        cs[k].votes < cs[i].votes \/ (cs[k].votes = cs[i].votes /\ k >= i)

IsRunnerUp(cs, i, j) ==
    /\ j # i
    /\ \A k \in (1..Len(cs)) \ {i} :
          cs[k].votes < cs[j].votes \/ (cs[k].votes = cs[j].votes /\ k >= j)

FactNames(f, date, cs, i, runnerup) ==
    /\ f.loaded
    /\ f.date = date
    /\ f.winner = cs[i].name
    /\ f.winner_votes = cs[i].votes
    /\ f.runnerup = runnerup.name
    /\ f.runnerup_votes = runnerup.votes
    /\ f.diff = cs[i].votes - runnerup.votes

\* C8 as stated: a check on a date other than the stored one emits the fact
\* of the stored date, its winner and runner-up the first two of the current
\* candidates by votes descending (ties in list order), its diff their
\* difference, and stores today's date.
C8_FactEmitted ==
    [][DayChanged =>
          LET cs == current_data.candidates IN
          /\ _prev_day_kst_date' = KstDate(clock)
          /\ \E i, j \in 1..Len(cs) :
                /\ IsWinner(cs, i)
                /\ IsRunnerUp(cs, i, j)
                /\ FactNames(_prev_day_data', _prev_day_kst_date, cs, i, cs[j])]_vars

\* C8 as amended: such a check stores today's date; with a non-empty
\* candidate list it emits the fact of the stored date, the runner-up being
\* the second candidate of that order or, for a single candidate, "N/A"
\* with 0 votes; with an empty list it leaves the fact as it was.
C8_FactEmittedWhenCandidates ==
    [][DayChanged =>
          LET cs == current_data.candidates IN
          /\ _prev_day_kst_date' = KstDate(clock)
          /\ IF cs = <<>> THEN _prev_day_data' = _prev_day_data
             ELSE \E i \in 1..Len(cs) :
                    /\ IsWinner(cs, i)
                    /\ IF Len(cs) = 1
                       THEN FactNames(_prev_day_data', _prev_day_kst_date, cs, i,
                                      Cand("N/A", 0))
                       ELSE \E j \in 1..Len(cs) :
                              /\ IsRunnerUp(cs, i, j)
                              /\ FactNames(_prev_day_data', _prev_day_kst_date,
                                           cs, i, cs[j])]_vars

C8_RolledOver ==
    /\ day_obs.check = "rollover"
    /\ _prev_day_data.loaded
    /\ _prev_day_data.date + 1 = _prev_day_kst_date
    /\ _prev_day_data.winner = "B"
    /\ _prev_day_data.runnerup = "A"

\* C9: a check made while the stored date is unset stores today's date and
\* leaves the previous-day fact as it was.
C9_FirstCheckOnlyRecords ==
    [][(IsTickStep /\ _prev_day_kst_date = -1) =>
          /\ _prev_day_kst_date' = KstDate(clock)
          /\ _prev_day_data' = _prev_day_data
          /\ _prev_day_loaded' = _prev_day_loaded]_vars

C9_FirstCheckWithCandidates ==
    /\ day_obs.check = "first"
    /\ _prev_day_kst_date = KstDate(clock)
    /\ ~_prev_day_data.loaded
    /\ fetched.n >= 2
    /\ Len(vote_history[1].candidates) >= 2

(***************************************************************************)
(* SpecFact: the long-lived process started on the second day of the       *)
(* model, with a remote sheet that may hold a row of the day before.       *)
(***************************************************************************)
FactHistories ==
    { <<>>,
      <<OldRow(DayStart, 80, 70)>>,
      <<OldRow(DayStart - 60, 80, 70), OldRow(DayStart, 70, 90)>> }

InitFact ==
    /\ clock = DayStart + DAY
    /\ IS_VERCEL = FALSE
    /\ GOOGLE_CREDS_FILE = TRUE
    /\ sheet_history \in FactHistories
    /\ \E initOk \in InitOks(FALSE), readOk \in BOOLEAN :
          start_background_threads(NoSheet, initOk, readOk)

SpecFact == InitFact /\ [][NextDay]_vars

\* C30: a previous-day fact that is loaded stays loaded; a loaded fact has
\* diff = winner_votes - runnerup_votes >= 0 and a date earlier than the
\* stored current date.
C30_FactStaysLoadedAndOrdered ==
    /\ [](_prev_day_data.loaded =>
             /\ _prev_day_data.diff =
                    _prev_day_data.winner_votes - _prev_day_data.runnerup_votes
             /\ _prev_day_data.diff >= 0
             /\ _prev_day_data.date < _prev_day_kst_date)
    /\ [][_prev_day_data.loaded => _prev_day_data'.loaded]_vars

\* The fact the recovery loaded, with Gumayusi ahead, was replaced at the
\* day change by the fact of the day that ended.
C30_RecoveredThenRolledOver ==
    /\ day_obs.load = "loaded"
    /\ day_obs.check = "rollover"
    /\ sheet_history # <<>>
    /\ sheet_history[Len(sheet_history)].cells[3] = Str(90)
    /\ _prev_day_data.loaded
    /\ _prev_day_data.date = KstDate(DayStart + DAY)
    /\ _prev_day_kst_date = KstDate(DayStart + 2 * DAY)

(***************************************************************************)
(* The velocity of api_current(), server.py:936-958, as a function of the  *)
(* two most recent snapshots.  Times are in milliseconds, velocities in    *)
(* tenths of a vote per minute (round(x, 1)).                              *)
(***************************************************************************)
\* The floor of the elapsed minutes, 0.0167, in ten-thousandths of a minute.
MIN_MINUTES_E4 == 167

\* round(n / d, 1 digit) for d > 0, as the integers nearest to n / d; on a
\* tie the float quotient and its rounding decide, here either neighbour.
Rounds(n, d) ==
    IF 2 * (n % d) < d THEN {n \div d}
    ELSE IF 2 * (n % d) > d THEN {(n \div d) + 1}
    ELSE {n \div d, (n \div d) + 1}

\* prev_map = {c["name"]: c["votes"] ...}: the names as they are, the last
\* entry of a name wins; prev_map.get(name, votes).
PrevVotes(previous, name, default) ==
    IF \E i \in 1..Len(previous) : previous[i].name = name
    THEN previous[CHOOSE i \in 1..Len(previous) :
                     /\ previous[i].name = name
                     /\ \A j \in (i + 1)..Len(previous) : previous[j].name # name].votes
    ELSE default

\* round(diff / minutes, 1) with minutes = max(elapsed / 60.0, 0.0167):
\* elapsed_ms / 60000 >= 167 / 10000 iff elapsed_ms * 10000 >= 167 * 60000.
VelocityTenths(diff, elapsed_ms) ==
    IF elapsed_ms * 10000 >= MIN_MINUTES_E4 * 60000
    THEN Rounds(diff * 600000, elapsed_ms)
    ELSE Rounds(diff * 100000, MIN_MINUTES_E4)

\* The enriched candidates of the response, server.py:948-954.
Enriched(previous, candidates, elapsed_ms) ==
    { e \in [1..Len(candidates) ->
               [name : {candidates[i].name : i \in 1..Len(candidates)},
                diff : {candidates[i].votes
                           - PrevVotes(previous, candidates[i].name, candidates[i].votes)
                        : i \in 1..Len(candidates)},
                velocity : UNION {VelocityTenths(
                                     candidates[i].votes
                                        - PrevVotes(previous, candidates[i].name,
                                                    candidates[i].votes),
                                     elapsed_ms) : i \in 1..Len(candidates)}]] :
        \A i \in 1..Len(candidates) :
            /\ e[i].name = candidates[i].name
            /\ e[i].diff = candidates[i].votes
                              - PrevVotes(previous, candidates[i].name, candidates[i].votes)
            /\ e[i].velocity \in VelocityTenths(e[i].diff, elapsed_ms) }

\* Times between two snapshots: none, half a second, around the floor, the
\* fetch interval and above.
ElapsedMs == {0, 500, 1000, 1001, 1002, 1003, 1500, 30000, 60000, 90000}

PreviousSnapshots ==
    { <<Cand(DORAN, 1000), Cand(GUMA, 900)>>,
      <<Cand(GUMA, 900)>> }

LatestSnapshots ==
    { <<Cand(DORAN, v), Cand(GUMA, 907)>> : v \in {990, 1000, 1001, 1007, 1100} }

InitVelocity ==
    /\ clock = StartClock
    /\ IS_VERCEL = FALSE
    /\ GOOGLE_CREDS_FILE = TRUE
    /\ sheet_history = <<>>
    /\ InitStore
    /\ _gsheet_initialized = FALSE
    /\ _gsheet_row_counter = 0
    /\ throttle_A1 = NoSheet
    /\ _prev_day_kst_date = -1
    /\ _prev_day_data = NoPrevDay
    /\ _prev_day_loaded = FALSE
    /\ day_obs = [load |-> "none", check |-> "none"]
    /\ obs \in [op : {"snapshots"}, elapsed_ms : ElapsedMs,
                 previous : PreviousSnapshots, candidates : LatestSnapshots]

\* api_current() answers with the enriched candidates.
Respond ==
    /\ obs.op = "snapshots"
    /\ \E e \in Enriched(obs.previous, obs.candidates, obs.elapsed_ms) :
          obs' = [op |-> "api_current", elapsed_ms |-> obs.elapsed_ms,
                  previous |-> obs.previous, candidates |-> obs.candidates,
                  enriched |-> e]
    /\ UNCHANGED <<clock, IS_VERCEL, GOOGLE_CREDS_FILE, concVars, authVars, stateVars, sinkVars, dayVars,
                   slept, fetched>>

NextVelocity == Respond

SpecVelocity == InitVelocity /\ [][NextVelocity]_vars

\* The velocity the claim gives, in tenths: the diff over the elapsed
\* minutes, the elapsed time being at least 1/60 minute (1000 ms).
ClaimedTenths(diff, elapsed_ms) ==
    IF elapsed_ms >= 1000 THEN Rounds(diff * 600000, elapsed_ms)
    ELSE {diff * 600}

InPrevious(o, name) == \E j \in 1..Len(o.previous) : o.previous[j].name = name

\* C19: the velocity of a candidate is its diff over the minutes between the
\* two most recent snapshots, floored at 1/60 minute: 60 s apart and
\* 1000 -> 1100 give 100.0, 0.5 s apart and 1000 -> 1001 give 60.0; a
\* candidate absent from the previous snapshot gets diff 0 and velocity 0.
C19_VelocityFlooredAtOneSecond ==
    obs.op = "api_current" =>
        \A i \in 1..Len(obs.enriched) :
            /\ obs.enriched[i].velocity
                   \in ClaimedTenths(obs.enriched[i].diff, obs.elapsed_ms)
            /\ (obs.elapsed_ms = 60000 /\ obs.enriched[i].diff = 100)
                   => obs.enriched[i].velocity = 1000
            /\ (obs.elapsed_ms = 500 /\ obs.enriched[i].diff = 1)
                   => obs.enriched[i].velocity = 600
            /\ ~InPrevious(obs, obs.enriched[i].name)
                   => obs.enriched[i].diff = 0 /\ obs.enriched[i].velocity = 0

\* The part of C19 the code keeps: the same with the floor the code has,
\* 0.0167 minute (1002 ms), under which 0.5 s and 1000 -> 1001 give 59.9.
C19_VelocityFlooredAtCodeFloor ==
    obs.op = "api_current" =>
        \A i \in 1..Len(obs.enriched) :
            /\ obs.enriched[i].diff =
                  IF InPrevious(obs, obs.enriched[i].name)
                  THEN obs.candidates[i].votes
                          - PrevVotes(obs.previous, obs.enriched[i].name, 0)
                  ELSE 0
            /\ obs.elapsed_ms >= 1002 =>
                  obs.enriched[i].velocity
                     \in Rounds(obs.enriched[i].diff * 600000, obs.elapsed_ms)
            /\ (obs.elapsed_ms = 60000 /\ obs.enriched[i].diff = 100)
                   => obs.enriched[i].velocity = 1000
            /\ (obs.elapsed_ms = 500 /\ obs.enriched[i].diff = 1)
                   => obs.enriched[i].velocity = 599
            /\ ~InPrevious(obs, obs.enriched[i].name)
                   => obs.enriched[i].diff = 0 /\ obs.enriched[i].velocity = 0

\* Two snapshots half a second apart with a candidate gone from 1000 to 1001.
C19_HalfSecondApart ==
    /\ obs.op = "api_current"
    /\ obs.elapsed_ms = 500
    /\ \E i \in 1..Len(obs.enriched) :
          obs.candidates[i].votes = 1001 /\ obs.enriched[i].diff = 1

(***************************************************************************)
(* fetch_poll_data(), server.py:255-318, step by step, run by the threads  *)
(* of THREADS.  A step is what a thread does between two points where      *)
(* another thread can run: a section under `lock` is one step that leaves  *)
(* the lock held and a step that releases it, or a single step when it     *)
(* only reads.  Time can pass between any two steps.                       *)
(***************************************************************************)
FETCH_INTERVAL == 3

\* A non-empty list where the results object is expected: results.get
\* raises (server.py:265).
NotADict == <<[name |-> "[]", votes |-> 0]>>

Snapshot(payload, ts) ==
    [timestamp |-> ts, candidates |-> payload, total |-> SumVotes(payload)]

\* The thread has left fetch_poll_data: background_fetcher sleeps
\* (server.py:884), the thread of api_refresh ends.
Finished(t) ==
    [IdleThread EXCEPT !.wake = IF t = "fetcher" THEN clock + FETCH_INTERVAL ELSE 0]

Step(t, r) == threads' = [threads EXCEPT ![t] = r]

Seen(what) == obs' = [op |-> "thread", step |-> what]

\* server.py:878-879 and :261-262: the day check (background_fetcher only),
\* then the two requests.  A login that failed waits for the lock to record
\* its error (server.py:160).
ConcFetch(t, scripts, payloads, max) ==
    /\ threads[t].pc = "idle"
    /\ fetched.n < max
    /\ t = "fetcher" => clock >= threads[t].wake
    /\ \E script \in scripts :
       \E c \in {fetch_poll_results(Ctx(script), 1, 1, clock)} :
       \E payload \in (IF c.ok THEN payloads ELSE {EmptyDict}) :
          /\ access_token' = c.at
          /\ refresh_token' = c.rt
          /\ token_expiry' = c.exp
          /\ Step(t, [threads[t] EXCEPT
                        !.pc = IF c.authFailed THEN "auth_failed"
                               ELSE IF c.ok /\ payload # EmptyDict THEN "fetched"
                               ELSE "failed",
                        !.payload = payload])
    /\ IF t = "fetcher"
       THEN /\ \E k \in {_check_day_change(DayState, current_data.candidates, clock)} :
                  SetDay(k.d, day_obs.load, k.branch)
            /\ slept' = FALSE
       ELSE UNCHANGED <<dayVars, slept>>
    /\ Seen("fetch")
    /\ UNCHANGED <<clock, IS_VERCEL, GOOGLE_CREDS_FILE, _gsheet_lock, aux, lock, stateVars, sinkVars, fetched>>

\* server.py:158-162: authenticate() records its failure under the lock.
ConcAuthError(t) ==
    /\ threads[t].pc = "auth_failed"
    /\ lock = "none"
    /\ lock' = t
    /\ current_data' = [current_data EXCEPT !.error = "Authentication failed"]
    /\ Step(t, [threads[t] EXCEPT !.pc = "auth_locked"])
    /\ Seen("auth_error")
    /\ UNCHANGED <<clock, IS_VERCEL, GOOGLE_CREDS_FILE, _gsheet_lock, aux, authVars, vote_history,
                   _last_write_time, _last_write_snapshot, sinkVars, dayVars, slept,
                   fetched>>

\* A stamp whose exception nothing catches: the thread ends in it.
ConcStamp_Uncaught(t) ==
    /\ threads[t].pc = "fetched"
    /\ IF threads[t].payload = NotADict
       THEN Step(t, [threads[t] EXCEPT !.pc = "raised"])
       ELSE Step(t, [threads[t] EXCEPT !.pc = "stamped", !.ts = clock])
    /\ Seen("stamp")
    /\ UNCHANGED <<clock, IS_VERCEL, GOOGLE_CREDS_FILE, _gsheet_lock, aux, lock, authVars, stateVars,
                   sinkVars, dayVars, slept, fetched>>

\* server.py:264-283: the candidates, the total, the timestamp and the
\* snapshot, before the lock is asked for.  A results answer that is not a
\* dict raises here; background_fetcher catches it (server.py:880-881).
ConcStamp(t) ==
    /\ threads[t].pc = "fetched"
    /\ IF threads[t].payload = NotADict
       THEN Step(t, Finished(t))
       ELSE Step(t, [threads[t] EXCEPT !.pc = "stamped", !.ts = clock])
    /\ Seen("stamp")
    /\ UNCHANGED <<clock, IS_VERCEL, GOOGLE_CREDS_FILE, _gsheet_lock, aux, lock, authVars, stateVars,
                   sinkVars, dayVars, slept, fetched>>

\* A commit that appends the snapshot and leaves current_data for later.
ConcCommit_AppendOnly(t) ==
    /\ threads[t].pc = "stamped"
    /\ lock = "none"
    /\ lock' = t
    /\ \E snapshot \in {Snapshot(threads[t].payload, threads[t].ts)} :
          /\ vote_history' = DequeAppend(vote_history, snapshot, HistoryCap)
          /\ fetched' = Record(fetched, snapshot)
    /\ Step(t, [threads[t] EXCEPT !.pc = "commit_locked"])
    /\ Seen("commit")
    /\ UNCHANGED <<clock, IS_VERCEL, GOOGLE_CREDS_FILE, _gsheet_lock, aux, authVars, current_data,
                   _last_write_time, _last_write_snapshot, sinkVars, dayVars, slept>>

\* server.py:285-295, with the lock taken.
ConcCommit(t) ==
    /\ threads[t].pc = "stamped"
    /\ lock = "none"
    /\ lock' = t
    /\ \E snapshot \in {Snapshot(threads[t].payload, threads[t].ts)} :
          /\ vote_history' = DequeAppend(vote_history, snapshot, HistoryCap)
          /\ current_data' = [current_data EXCEPT
                                 !.candidates = snapshot.candidates,
                                 !.total_votes = snapshot.total,
                                 !.last_updated = snapshot.timestamp,
                                 !.error = "None"]
          /\ fetched' = Record(fetched, snapshot)
    /\ Step(t, [threads[t] EXCEPT !.pc = "commit_locked"])
    /\ Seen("commit")
    /\ UNCHANGED <<clock, IS_VERCEL, GOOGLE_CREDS_FILE, _gsheet_lock, aux, authVars, _last_write_time,
                   _last_write_snapshot, sinkVars, dayVars, slept>>

\* server.py:314-317, with the lock taken.
ConcFailed(t) ==
    /\ threads[t].pc = "failed"
    /\ lock = "none"
    /\ lock' = t
    /\ current_data' = [current_data EXCEPT
                           !.error = IF @ = "None"
                                     THEN "Failed to fetch poll results. Retrying..."
                                     ELSE @]
    /\ Step(t, [threads[t] EXCEPT !.pc = "failed_locked"])
    /\ Seen("failed")
    /\ UNCHANGED <<clock, IS_VERCEL, GOOGLE_CREDS_FILE, _gsheet_lock, aux, authVars, vote_history,
                   _last_write_time, _last_write_snapshot, sinkVars, dayVars, slept,
                   fetched>>

\* The end of a `with lock:` block that wrote.
ConcRelease(t) ==
    /\ lock = t
    /\ lock' = "none"
    /\ Step(t, IF threads[t].pc = "commit_locked"
               THEN [threads[t] EXCEPT !.pc = "committed"]
               ELSE IF threads[t].pc = "auth_locked"
               THEN [threads[t] EXCEPT !.pc = "failed"]
               ELSE Finished(t))
    /\ Seen("release")
    /\ UNCHANGED <<clock, IS_VERCEL, GOOGLE_CREDS_FILE, _gsheet_lock, aux, authVars, stateVars, sinkVars,
                   dayVars, slept, fetched>>

\* server.py:299-303, long-lived mode: now_ts and should_write.
ConcDecide(t) ==
    /\ threads[t].pc = "committed"
    /\ Step(t, IF clock - _last_write_time >= WRITE_INTERVAL
               THEN [threads[t] EXCEPT !.pc = "file_read", !.now_ts = clock]
               ELSE Finished(t))
    /\ Seen("decide")
    /\ UNCHANGED <<clock, IS_VERCEL, GOOGLE_CREDS_FILE, _gsheet_lock, aux, lock, authVars, stateVars,
                   sinkVars, dayVars, slept, fetched>>

\* server.py:365-367 and :675-677: candidates and history are read under
\* the lock.
ConcRead(t, from, to) ==
    /\ threads[t].pc = from
    /\ lock = "none"
    /\ Step(t, [threads[t] EXCEPT !.pc = to,
                                  !.cands = current_data.candidates,
                                  !.hist = vote_history])
    /\ Seen(from)
    /\ UNCHANGED <<clock, IS_VERCEL, GOOGLE_CREDS_FILE, _gsheet_lock, aux, lock, authVars, stateVars,
                   sinkVars, dayVars, slept, fetched>>

\* What the rest of a write function sees: the candidates it read under the
\* lock, and current_data as it is now (server.py:384, :695).
SeenBy(t) == [current_data EXCEPT !.candidates = threads[t].cands]

\* write_result_file(), server.py:369-455, after its read.
ConcFileWrite(t) ==
    /\ threads[t].pc = "file_write"
    /\ \E fileOk \in BOOLEAN :
       \E row \in {write_result_file(SeenBy(t), threads[t].hist,
                                     _last_write_snapshot, clock, fileOk)} :
          /\ result_xlsx' = IF row = <<>> THEN result_xlsx
                            ELSE Append(result_xlsx, row)
          /\ Step(t, [threads[t] EXCEPT !.pc = "sheet_read", !.fileRow = row])
    /\ Seen("file_write")
    /\ UNCHANGED <<clock, IS_VERCEL, GOOGLE_CREDS_FILE, _gsheet_lock, aux, lock, authVars, stateVars,
                   _gsheet_initialized, _gsheet_row_counter, _gsheet_queue,
                   sheet_history, sheet, throttle_A1, writer_wake, writer_row,
                   dayVars, slept, fetched>>

\* write_google_sheet(), server.py:679-743, after its read.
ConcSheetEnqueue(t) ==
    /\ threads[t].pc = "sheet_enqueue"
    /\ \E readOk \in (IF _gsheet_initialized THEN BOOLEAN ELSE {TRUE}) :
       \E w \in {write_google_sheet(SeenBy(t), threads[t].hist,
                                    _last_write_snapshot, clock, GSession,
                                    _gsheet_queue, sheet_history, FALSE, TRUE,
                                    readOk, "ok")} :
          /\ _gsheet_queue' = w.queue
          /\ obs' = [op |-> "thread", step |-> "sheet_enqueue",
                     cands |-> threads[t].cands, fileRow |-> threads[t].fileRow,
                     built |-> w.built, enqueued |-> w.enqueued]
    /\ Step(t, [threads[t] EXCEPT !.pc = "set_time"])
    /\ UNCHANGED <<clock, IS_VERCEL, GOOGLE_CREDS_FILE, _gsheet_lock, aux, lock, authVars, stateVars,
                   result_xlsx, _gsheet_initialized, _gsheet_row_counter,
                   sheet_history, sheet, throttle_A1, writer_wake, writer_row,
                   dayVars, slept, fetched>>

\* server.py:308.
ConcSetWriteTime(t) ==
    /\ threads[t].pc = "set_time"
    /\ _last_write_time' = threads[t].now_ts
    /\ Step(t, [threads[t] EXCEPT !.pc = "read_cands"])
    /\ Seen("set_time")
    /\ UNCHANGED <<clock, IS_VERCEL, GOOGLE_CREDS_FILE, _gsheet_lock, aux, lock, authVars, current_data,
                   vote_history, _last_write_snapshot, sinkVars, dayVars, slept,
                   fetched>>

\* server.py:311-313, with the candidates read at :309-310.
ConcSetWriteSnapshot(t) ==
    /\ threads[t].pc = "set_snapshot"
    /\ _last_write_snapshot' =
           IF TrackedCount(threads[t].cands) >= 2
           THEN [doran |-> GetVotes(threads[t].cands, DORAN, 0),
                 guma |-> GetVotes(threads[t].cands, GUMA, 0)]
           ELSE _last_write_snapshot
    /\ Step(t, Finished(t))
    /\ Seen("set_snapshot")
    /\ UNCHANGED <<clock, IS_VERCEL, GOOGLE_CREDS_FILE, _gsheet_lock, aux, lock, authVars, current_data,
                   vote_history, _last_write_time, sinkVars, dayVars, slept, fetched>>

\* Time passes, for every thread.
ConcAdvance(max) ==
    /\ clock + 1 <= max
    /\ clock' = clock + 1
    /\ slept' = (slept \/ threads["fetcher"].pc = "idle")
    /\ obs' = [op |-> "advance"]
    /\ UNCHANGED <<IS_VERCEL, GOOGLE_CREDS_FILE, concVars, authVars, stateVars,
                   sinkVars, dayVars, fetched>>

(***************************************************************************)
(* SpecConc: the scheduled tick and triggered refreshes, interleaved.      *)
(***************************************************************************)
ConcSpan == 2
MaxConcClock == StartClock + ConcSpan
MaxConcFetches == 2

ConcScripts == {AllOk, <<"bad">>}

ConcPayloads ==
    { <<Cand(DORAN, 100), Cand(GUMA, 90)>>,
      <<Cand(DORAN, 110), Cand(GUMA, 95)>> }

InitConc ==
    /\ clock = StartClock
    /\ IS_VERCEL = FALSE
    /\ GOOGLE_CREDS_FILE = TRUE
    /\ sheet_history = <<>>
    /\ start_background_threads(NoSheet, TRUE, TRUE)

NextConc ==
    \/ \E t \in THREADS : ConcFetch(t, ConcScripts, ConcPayloads, MaxConcFetches)
    \/ \E t \in THREADS : ConcAuthError(t)
    \/ \E t \in THREADS : ConcStamp(t)
    \/ \E t \in THREADS : ConcCommit(t)
    \/ \E t \in THREADS : ConcFailed(t)
    \/ \E t \in THREADS : ConcRelease(t)
    \/ \E t \in THREADS : ConcDecide(t)
    \/ \E t \in THREADS : ConcRead(t, "file_read", "file_write")
    \/ \E t \in THREADS : ConcFileWrite(t)
    \/ \E t \in THREADS : ConcRead(t, "sheet_read", "sheet_enqueue")
    \/ \E t \in THREADS : ConcSheetEnqueue(t)
    \/ \E t \in THREADS : ConcSetWriteTime(t)
    \/ \E t \in THREADS : ConcRead(t, "read_cands", "set_snapshot")
    \/ \E t \in THREADS : ConcSetWriteSnapshot(t)
    \/ ConcAdvance(MaxConcClock)

SpecConc == InitConc /\ [][NextConc]_vars

\* C22: the timestamps of vote_history do not decrease from oldest to
\* newest, and current_data.last_updated never moves backwards.
C22_CommittedInFetchOrder ==
    /\ [](\A i, j \in 1..Len(vote_history) :
             i < j => vote_history[i].timestamp <= vote_history[j].timestamp)
    /\ [][current_data'.last_updated >= current_data.last_updated]_vars

\* Two runs hold snapshots they have not committed, taken at different times.
C22_TwoUncommitted ==
    /\ threads["fetcher"].pc = "stamped"
    /\ threads["refresh"].pc = "stamped"
    /\ threads["fetcher"].ts < threads["refresh"].ts

\* C24: a step that changes current_data, vote_history, _last_write_time or
\* _last_write_snapshot is made by a thread that took the lock for it.
C24_MutationsUnderLock ==
    [][(\/ current_data' # current_data
        \/ vote_history' # vote_history
        \/ _last_write_time' # _last_write_time
        \/ _last_write_snapshot' # _last_write_snapshot)
          => (lock = "none" /\ lock' # "none")
    ]_vars

\* A run has set the throttle baseline while the other is in its write step.
C24_BaselineSet ==
    /\ _last_write_time # 0
    /\ _last_write_snapshot # <<>>
    /\ \E t \in THREADS : threads[t].pc \in {"file_write", "sheet_enqueue", "set_time"}

\* The snapshots committed so far.
Committed == {fetched.recent[i] : i \in 1..Len(fetched.recent)}

\* C28: a run that wrote a row to the file and put a row in the queue put
\* the same row in both, and the row's label is the timestamp of a snapshot
\* with the candidates the row was built from.
C28_SameRowSameSnapshot ==
    (obs.op = "thread" /\ obs.step = "sheet_enqueue" /\ obs.enqueued
        /\ obs.fileRow # <<>>)
      => /\ obs.built = obs.fileRow
         /\ \E s \in Committed :
               /\ s.candidates = obs.cands
               /\ Label(s.timestamp) = obs.built.ts

C28_WroteBothSinks ==
    /\ obs.op = "thread" /\ obs.step = "sheet_enqueue" /\ obs.enqueued
    /\ obs.fileRow # <<>>
    /\ fetched.n >= 2

\* C29: while no thread holds the lock and vote_history is not empty,
\* current_data's candidates, total_votes and last_updated are those of the
\* newest snapshot, whose total is the sum of its candidates' votes.
C29_CurrentIsNewestSnapshot ==
    (lock = "none" /\ vote_history # <<>>) =>
        LET newest == vote_history[Len(vote_history)]
        IN /\ current_data.candidates = newest.candidates
           /\ current_data.total_votes = newest.total
           /\ current_data.last_updated = newest.timestamp
           /\ newest.total = SumVotes(newest.candidates)

\* Two concurrent runs committed, the second with the older timestamp, and
\* a third run has failed since.
C29_AfterConcurrentAndFailed ==
    /\ lock = "none"
    /\ Len(vote_history) = 2
    /\ vote_history[2].timestamp < vote_history[1].timestamp
    /\ vote_history[2].candidates # vote_history[1].candidates
    /\ current_data.error # "None"

(***************************************************************************)
(* fetch_poll_results(), ensure_auth(), authenticate() and                 *)
(* try_refresh_token(), server.py:75-252, step by step: an HTTP exchange   *)
(* is one step, and so is each assignment to a global of the session.      *)
(* The token pair of a response is written as one number, which differs    *)
(* from response to response: 1 and 2 are the logins of the two threads,   *)
(* 3 and 4 their refreshes.                                                *)
(***************************************************************************)
LoginToken(t) == IF t = "fetcher" THEN 1 ELSE 2
RefreshToken(t) == IF t = "fetcher" THEN 3 ELSE 4

\* server.py:878-879, :261 and :228: the call begins.
RaceFetch(t, max) ==
    /\ threads[t].pc = "idle"
    /\ fetched.n < max
    /\ t = "fetcher" => clock >= threads[t].wake
    /\ Step(t, [threads[t] EXCEPT !.pc = "ensure"])
    /\ IF t = "fetcher"
       THEN /\ \E k \in {_check_day_change(DayState, current_data.candidates, clock)} :
                  SetDay(k.d, day_obs.load, k.branch)
            /\ slept' = FALSE
       ELSE UNCHANGED <<dayVars, slept>>
    /\ Seen("call")
    /\ UNCHANGED <<clock, IS_VERCEL, GOOGLE_CREDS_FILE, _gsheet_lock, aux, lock, authVars, stateVars,
                   sinkVars, fetched>>

\* ensure_auth(), server.py:165-170.
RaceEnsureAuth(t) ==
    /\ threads[t].pc = "ensure"
    /\ Step(t, IF access_token = 0 \/ clock > token_expiry
               THEN [threads[t] EXCEPT !.pc = "login", !.from = "ensure"]
               ELSE [threads[t] EXCEPT !.pc = "request"])
    /\ Seen("ensure")
    /\ UNCHANGED <<clock, IS_VERCEL, GOOGLE_CREDS_FILE, _gsheet_lock, aux, lock, authVars, stateVars,
                   sinkVars, dayVars, slept, fetched>>

\* authenticate(), server.py:82-148: the four exchanges of the login.
RaceLogin(t) ==
    /\ threads[t].pc = "login"
    /\ \E ok \in BOOLEAN :
          Step(t, IF ok
                  THEN [threads[t] EXCEPT !.pc = "set_access", !.tok = LoginToken(t)]
                  ELSE [threads[t] EXCEPT !.pc = "auth_failed"])
    /\ Seen("login")
    /\ UNCHANGED <<clock, IS_VERCEL, GOOGLE_CREDS_FILE, _gsheet_lock, aux, lock, authVars, stateVars,
                   sinkVars, dayVars, slept, fetched>>

\* server.py:149 and :191.
RaceSetAccess(t) ==
    /\ threads[t].pc = "set_access"
    /\ access_token' = threads[t].tok
    /\ Step(t, [threads[t] EXCEPT !.pc = "set_refresh"])
    /\ Seen("set_access")
    /\ UNCHANGED <<clock, IS_VERCEL, GOOGLE_CREDS_FILE, _gsheet_lock, aux, lock, refresh_token,
                   token_expiry, stateVars, sinkVars, dayVars, slept, fetched>>

\* server.py:150 and :192.
RaceSetRefresh(t) ==
    /\ threads[t].pc = "set_refresh"
    /\ refresh_token' = threads[t].tok
    /\ Step(t, [threads[t] EXCEPT !.pc = "set_expiry"])
    /\ Seen("set_refresh")
    /\ UNCHANGED <<clock, IS_VERCEL, GOOGLE_CREDS_FILE, _gsheet_lock, aux, lock, access_token,
                   token_expiry, stateVars, sinkVars, dayVars, slept, fetched>>

\* server.py:152 and :193, and the return: to the request of
\* fetch_poll_results when ensure_auth called (server.py:228-231), to a new
\* call of it when the 401 branch did (server.py:243-244).
RaceSetExpiry(t) ==
    /\ threads[t].pc = "set_expiry"
    /\ token_expiry' = clock + LEASE
    /\ Step(t, [threads[t] EXCEPT
                  !.pc = IF threads[t].from = "ensure" THEN "request" ELSE "ensure",
                  !.tok = 0, !.from = "none"])
    /\ Seen("set_expiry")
    /\ UNCHANGED <<clock, IS_VERCEL, GOOGLE_CREDS_FILE, _gsheet_lock, aux, lock, access_token,
                   refresh_token, stateVars, sinkVars, dayVars, slept, fetched>>

\* server.py:231-249: the results request, made with the access token
\* stored now.  A 401 is answered at most maxreq times in one call.
RaceRequest(t, payloads, maxreq) ==
    /\ threads[t].pc = "request"
    /\ \E resp \in (IF threads[t].nreq < maxreq THEN {"ok", "unauth", "bad"}
                    ELSE {"ok", "bad"}) :
       \E payload \in (IF resp = "ok" THEN payloads ELSE {EmptyDict}) :
          Step(t, [threads[t] EXCEPT
                     !.pc = IF resp = "unauth" THEN "refresh"
                            ELSE IF resp = "ok" /\ payload # EmptyDict THEN "fetched"
                            ELSE "failed",
                     !.payload = payload,
                     !.nreq = IF @ < maxreq THEN @ + 1 ELSE @])
    /\ Seen("request")
    /\ UNCHANGED <<clock, IS_VERCEL, GOOGLE_CREDS_FILE, _gsheet_lock, aux, lock, authVars, stateVars,
                   sinkVars, dayVars, slept, fetched>>

\* try_refresh_token(), server.py:173-202, up to its assignments.
RaceRefresh(t) ==
    /\ threads[t].pc = "refresh"
    /\ \E ok \in (IF refresh_token = 0 THEN {FALSE} ELSE BOOLEAN) :
          Step(t, IF ok
                  THEN [threads[t] EXCEPT !.pc = "set_access", !.tok = RefreshToken(t),
                                          !.from = "refresh"]
                  ELSE [threads[t] EXCEPT !.pc = "login", !.from = "refresh"])
    /\ Seen("refresh")
    /\ UNCHANGED <<clock, IS_VERCEL, GOOGLE_CREDS_FILE, _gsheet_lock, aux, lock, authVars, stateVars,
                   sinkVars, dayVars, slept, fetched>>

(***************************************************************************)
(* SpecRace: the tick and a triggered refresh, both through the session.   *)
(***************************************************************************)
MaxRaceFetches == 1
MaxRaceRequests == 1
RaceSpan == 1

RacePayloads == {<<Cand(DORAN, 100), Cand(GUMA, 90)>>}

NextRace ==
    \/ \E t \in THREADS : RaceFetch(t, MaxRaceFetches)
    \/ \E t \in THREADS : RaceEnsureAuth(t)
    \/ \E t \in THREADS : RaceLogin(t)
    \/ \E t \in THREADS : RaceSetAccess(t)
    \/ \E t \in THREADS : RaceSetRefresh(t)
    \/ \E t \in THREADS : RaceSetExpiry(t)
    \/ \E t \in THREADS : RaceRequest(t, RacePayloads, MaxRaceRequests)
    \/ \E t \in THREADS : RaceRefresh(t)
    \/ \E t \in THREADS : ConcAuthError(t)
    \/ \E t \in THREADS : ConcStamp(t)
    \/ \E t \in THREADS : ConcCommit(t)
    \/ \E t \in THREADS : ConcFailed(t)
    \/ \E t \in THREADS : ConcRelease(t)
    \/ \E t \in THREADS : ConcDecide(t)
    \/ \E t \in THREADS : ConcRead(t, "file_read", "file_write")
    \/ \E t \in THREADS : ConcFileWrite(t)
    \/ \E t \in THREADS : ConcRead(t, "sheet_read", "sheet_enqueue")
    \/ \E t \in THREADS : ConcSheetEnqueue(t)
    \/ \E t \in THREADS : ConcSetWriteTime(t)
    \/ \E t \in THREADS : ConcRead(t, "read_cands", "set_snapshot")
    \/ \E t \in THREADS : ConcSetWriteSnapshot(t)
    \/ ConcAdvance(StartClock + RaceSpan)

SpecRace == InitConc /\ [][NextRace]_vars

\* A login or a refresh of the thread is under way.
Renewing(t) ==
    threads[t].pc \in {"login", "refresh", "set_access", "set_refresh", "set_expiry"}

\* C23: at most one thread is in a login or a refresh, and when none is in
\* the middle of storing a response, the access token and the refresh token
\* stored are those of one response.
C23_OneRenewalOneResponse ==
    /\ Cardinality({t \in THREADS : Renewing(t)}) <= 1
    /\ (\A t \in THREADS : ~Renewing(t)) => access_token = refresh_token

\* Both threads hold a token response they have not stored yet.
C23_TwoResponsesInHand ==
    /\ threads["fetcher"].pc = "set_access"
    /\ threads["refresh"].pc = "set_access"
    /\ threads["fetcher"].tok # threads["refresh"].tok

(***************************************************************************)
(* SpecLive: background_fetcher() alone, server.py:876-884, with every     *)
(* failure a tick can meet, under fairness: a thread that can run does     *)
(* run, and time passes.                                                   *)
(***************************************************************************)
LiveSpan == 6
MaxLiveFetches == 3
MaxLiveClock == StartClock + LiveSpan

LiveScripts == {AllOk, <<"bad">>, <<"unauth", "timeout">>}

LivePayloads == {<<Cand(DORAN, 100), Cand(GUMA, 90)>>, <<Cand(DORAN, 110)>>, NotADict}

InitLive ==
    /\ clock = StartClock
    /\ IS_VERCEL = FALSE
    /\ GOOGLE_CREDS_FILE = TRUE
    /\ sheet_history = <<OldRow(StartClock - 2 * WRITE_INTERVAL, 80, 70)>>
    /\ \E initOk \in InitOks(FALSE) : start_background_threads(NoSheet, initOk, TRUE)

\* A step of background_fetcher's thread.
FetcherStep ==
    \/ ConcFetch("fetcher", LiveScripts, LivePayloads, MaxLiveFetches)
    \/ ConcAuthError("fetcher")
    \/ ConcStamp("fetcher")
    \/ ConcCommit("fetcher")
    \/ ConcFailed("fetcher")
    \/ ConcRelease("fetcher")
    \/ ConcDecide("fetcher")
    \/ ConcRead("fetcher", "file_read", "file_write")
    \/ ConcFileWrite("fetcher")
    \/ ConcRead("fetcher", "sheet_read", "sheet_enqueue")
    \/ ConcSheetEnqueue("fetcher")
    \/ ConcSetWriteTime("fetcher")
    \/ ConcRead("fetcher", "read_cands", "set_snapshot")
    \/ ConcSetWriteSnapshot("fetcher")

LiveAdvance == ConcAdvance(MaxLiveClock)

NextLive == FetcherStep \/ LiveAdvance

SpecLive ==
    InitLive /\ [][NextLive]_vars /\ WF_vars(FetcherStep) /\ WF_vars(LiveAdvance)

\* background_fetcher is inside a pass of its loop.
InTick == threads["fetcher"].pc # "idle"

\* C21: every pass of background_fetcher's loop reaches its sleep, whatever
\* failed in it, and a sleep that ends by MaxLiveClock is followed by the
\* next pass.
C21_EveryTickCompletesAndNextStarts ==
    /\ InTick ~> ~InTick
    /\ (~InTick /\ threads["fetcher"].wake <= MaxLiveClock) ~> InTick

\* The third pass is under way after a pass whose login failed.
C21_TickAfterFailures ==
    /\ InTick
    /\ threads["fetcher"].pc = "fetched"
    /\ clock >= StartClock + 2 * FETCH_INTERVAL
    /\ current_data.error = "Authentication failed"
    /\ fetched.n = 0

(***************************************************************************)
(* The two locks, server.py:65 and :483, with every `with` block a step    *)
(* that takes the lock and does the block's work, and a step that          *)
(* releases it.  The threads are those of THREADS, the API reader          *)
(* (api_current, api_history) and the writer thread; aux holds where the   *)
(* last two are.                                                           *)
(***************************************************************************)
\* A section that mutates the state and is open: ConcRelease ends it.
WriteSections == {"commit_locked", "auth_locked", "failed_locked"}

\* server.py:364-366, :675-677 and :309-310: `with lock:` is entered and
\* candidates and history are read.
LockAcquireRead(t, from, held) ==
    /\ threads[t].pc = from
    /\ lock = "none"
    /\ lock' = t
    /\ Step(t, [threads[t] EXCEPT !.pc = held,
                                  !.cands = current_data.candidates,
                                  !.hist = vote_history])
    /\ Seen(from)
    /\ UNCHANGED <<clock, IS_VERCEL, GOOGLE_CREDS_FILE, _gsheet_lock, aux, authVars,
                   stateVars, sinkVars, dayVars, slept, fetched>>

\* An end of the block that keeps the lock: the thread goes on holding it.
LockReleaseRead_Keeps(t, held, to) ==
    /\ threads[t].pc = held
    /\ lock = t
    /\ Step(t, [threads[t] EXCEPT !.pc = to])
    /\ Seen("release")
    /\ UNCHANGED <<clock, IS_VERCEL, GOOGLE_CREDS_FILE, lock, _gsheet_lock, aux,
                   authVars, stateVars, sinkVars, dayVars, slept, fetched>>

\* The end of that block.
LockReleaseRead(t, held, to) ==
    /\ threads[t].pc = held
    /\ lock = t
    /\ lock' = "none"
    /\ Step(t, [threads[t] EXCEPT !.pc = to])
    /\ Seen("release")
    /\ UNCHANGED <<clock, IS_VERCEL, GOOGLE_CREDS_FILE, _gsheet_lock, aux, authVars,
                   stateVars, sinkVars, dayVars, slept, fetched>>

\* write_google_sheet(), server.py:679-716, long-lived mode: the row is
\* built and the last label of the remote sheet is read.
LockSheetBuild(t) ==
    /\ threads[t].pc = "sheet_enqueue"
    /\ \E readOk \in (IF _gsheet_initialized THEN BOOLEAN ELSE {TRUE}) :
       \E w \in {write_google_sheet(SeenBy(t), threads[t].hist,
                                    _last_write_snapshot, clock, GSession,
                                    _gsheet_queue, sheet_history, FALSE, TRUE,
                                    readOk, "ok")} :
          /\ Step(t, IF w.enqueued
                     THEN [threads[t] EXCEPT !.pc = "queue_append", !.row = w.built]
                     ELSE [threads[t] EXCEPT !.pc = "set_time"])
          /\ obs' = [op |-> "thread", step |-> "sheet_build", calls |-> w.g.calls]
    /\ UNCHANGED <<clock, IS_VERCEL, GOOGLE_CREDS_FILE, lock, _gsheet_lock, aux,
                   authVars, stateVars, sinkVars, dayVars, slept, fetched>>

\* server.py:739-740: `with _gsheet_lock:` is entered and the row appended.
LockQueueAppend(t) ==
    /\ threads[t].pc = "queue_append"
    /\ _gsheet_lock = "none"
    /\ _gsheet_lock' = t
    /\ _gsheet_queue' = DequeAppend(_gsheet_queue, threads[t].row, QueueCap)
    /\ Step(t, [threads[t] EXCEPT !.pc = "queue_locked"])
    /\ Seen("queue_append")
    /\ UNCHANGED <<clock, IS_VERCEL, GOOGLE_CREDS_FILE, lock, aux, authVars, stateVars,
                   result_xlsx, _gsheet_initialized, _gsheet_row_counter,
                   sheet_history, sheet, throttle_A1, writer_wake, writer_row,
                   dayVars, slept, fetched>>

\* The end of that block.
LockQueueRelease(t) ==
    /\ threads[t].pc = "queue_locked"
    /\ _gsheet_lock = t
    /\ _gsheet_lock' = "none"
    /\ Step(t, [threads[t] EXCEPT !.pc = "set_time", !.row = <<>>])
    /\ Seen("release")
    /\ UNCHANGED <<clock, IS_VERCEL, GOOGLE_CREDS_FILE, lock, aux, authVars, stateVars,
                   sinkVars, dayVars, slept, fetched>>

\* A request for /api/current or /api/history arrives (server.py:928, :977).
ApiRequest ==
    /\ aux.api = "idle"
    /\ aux' = [aux EXCEPT !.api = "waiting"]
    /\ obs' = [op |-> "api", step |-> "request"]
    /\ UNCHANGED <<clock, IS_VERCEL, GOOGLE_CREDS_FILE, threads, lock, _gsheet_lock,
                   authVars, stateVars, sinkVars, dayVars, slept, fetched>>

\* server.py:928-969 and :977-978: the handler's `with lock:` block, which
\* copies and reads.
ApiAcquire ==
    /\ aux.api = "waiting"
    /\ lock = "none"
    /\ lock' = "api"
    /\ aux' = [aux EXCEPT !.api = "locked"]
    /\ obs' = [op |-> "api", step |-> "read"]
    /\ UNCHANGED <<clock, IS_VERCEL, GOOGLE_CREDS_FILE, threads, _gsheet_lock,
                   authVars, stateVars, sinkVars, dayVars, slept, fetched>>

ApiRelease ==
    /\ aux.api = "locked"
    /\ lock = "api"
    /\ lock' = "none"
    /\ aux' = [aux EXCEPT !.api = "idle"]
    /\ obs' = [op |-> "api", step |-> "release"]
    /\ UNCHANGED <<clock, IS_VERCEL, GOOGLE_CREDS_FILE, threads, _gsheet_lock,
                   authVars, stateVars, sinkVars, dayVars, slept, fetched>>

\* _gsheet_writer_thread(), server.py:587-596: the queue is not empty; the
\* session is initialised when it is not, and the thread sleeps when that
\* fails.
LockWriterInit ==
    /\ aux.writer = "idle"
    /\ writer_row = <<>>
    /\ clock >= writer_wake
    /\ _gsheet_queue # <<>>
    /\ \E initOk \in InitOks(_gsheet_initialized) :
       \E g \in {IF _gsheet_initialized THEN GSession
                  ELSE _init_gsheet(GSession, sheet_history, initOk)} :
          /\ _gsheet_initialized' = g.init
          /\ _gsheet_row_counter' = g.rc
          /\ throttle_A1' = g.thr
          /\ writer_wake' = IF g.init THEN writer_wake ELSE clock + 10
          /\ aux' = [aux EXCEPT !.writer = IF g.init THEN "pop" ELSE "idle"]
          /\ obs' = [op |-> "writer_init", calls |-> g.calls]
    /\ UNCHANGED <<clock, IS_VERCEL, GOOGLE_CREDS_FILE, threads, lock, _gsheet_lock,
                   authVars, stateVars, result_xlsx, _gsheet_queue, sheet_history,
                   sheet, writer_row, dayVars, slept, fetched>>

\* server.py:598-601: `with _gsheet_lock:` is entered and the row taken.
LockWriterPop ==
    /\ aux.writer = "pop"
    /\ _gsheet_lock = "none"
    /\ _gsheet_lock' = "writer"
    /\ IF _gsheet_queue = <<>>
       THEN UNCHANGED <<_gsheet_queue, writer_row>>
       ELSE /\ _gsheet_queue' = Tail(_gsheet_queue)
            /\ writer_row' = Head(_gsheet_queue)
    /\ aux' = [aux EXCEPT !.writer = "popped"]
    /\ obs' = [op |-> "writer_take"]
    /\ UNCHANGED <<clock, IS_VERCEL, GOOGLE_CREDS_FILE, threads, lock, authVars,
                   stateVars, result_xlsx, _gsheet_initialized, _gsheet_row_counter,
                   sheet_history, sheet, throttle_A1, writer_wake, dayVars, slept,
                   fetched>>

\* The end of that block; the remote calls for the row follow (WriterSend).
LockWriterRelease ==
    /\ aux.writer = "popped"
    /\ _gsheet_lock = "writer"
    /\ _gsheet_lock' = "none"
    /\ aux' = [aux EXCEPT !.writer = "idle"]
    /\ obs' = [op |-> "writer_release"]
    /\ UNCHANGED <<clock, IS_VERCEL, GOOGLE_CREDS_FILE, threads, lock, authVars,
                   stateVars, sinkVars, dayVars, slept, fetched>>

\* server.py:603-632: the remote calls for the row taken, made after the
\* `with _gsheet_lock:` block is left.
LockWriterSend(appends) ==
    /\ aux.writer = "idle"
    /\ writer_row # <<>>
    /\ \E append \in appends :
       \E r \in {WriterPass(GSession, <<writer_row>>, sheet_history, clock,
                             TRUE, TRUE, append, "ok", TRUE)} :
          /\ _gsheet_initialized' = r.g.init
          /\ _gsheet_row_counter' = r.g.rc
          /\ throttle_A1' = r.g.thr
          /\ sheet' = r.g.sheet
          /\ writer_row' = <<>>
          /\ writer_wake' = clock + r.sleep
          /\ obs' = [op |-> "writer", outcome |-> r.outcome]
    /\ UNCHANGED <<clock, IS_VERCEL, GOOGLE_CREDS_FILE, concVars, authVars, stateVars,
                   result_xlsx, _gsheet_queue, sheet_history, dayVars, slept, fetched>>

(***************************************************************************)
(* SpecLocks: the tick, a triggered refresh, the API reader and the        *)
(* writer thread over the two locks within one second of the clock, under  *)
(* fair scheduling: a thread that can run again and again does run.  A     *)
(* thread that went to sleep stays asleep.                                 *)
(***************************************************************************)
MaxLockFetches == 1

LockScripts == {AllOk, <<"bad">>}
LockPayloads == {<<Cand(DORAN, 100), Cand(GUMA, 90)>>}
LockAppends == {"ok", "err"}

\* A step of a thread that runs fetch_poll_data.
FetchThreadStep(t) ==
    \/ ConcFetch(t, LockScripts, LockPayloads, MaxLockFetches)
    \/ ConcAuthError(t)
    \/ ConcStamp(t)
    \/ ConcCommit(t)
    \/ ConcFailed(t)
    \/ (threads[t].pc \in WriteSections /\ ConcRelease(t))
    \/ ConcDecide(t)
    \/ LockAcquireRead(t, "file_read", "file_locked")
    \/ LockReleaseRead(t, "file_locked", "file_write")
    \/ ConcFileWrite(t)
    \/ LockAcquireRead(t, "sheet_read", "sheet_locked")
    \/ LockReleaseRead(t, "sheet_locked", "sheet_enqueue")
    \/ LockSheetBuild(t)
    \/ LockQueueAppend(t)
    \/ LockQueueRelease(t)
    \/ ConcSetWriteTime(t)
    \/ LockAcquireRead(t, "read_cands", "cands_locked")
    \/ LockReleaseRead(t, "cands_locked", "set_snapshot")
    \/ ConcSetWriteSnapshot(t)

\* A step of the writer thread.
WriterStep ==
    \/ LockWriterInit
    \/ LockWriterPop
    \/ LockWriterRelease
    \/ LockWriterSend(LockAppends)

\* A step of a request handler that has been called.
ApiStep == ApiAcquire \/ ApiRelease

NextLocks ==
    \/ \E t \in THREADS : FetchThreadStep(t)
    \/ WriterStep
    \/ ApiRequest
    \/ ApiStep

SpecLocks ==
    /\ InitConc
    /\ [][NextLocks]_vars
    /\ \A t \in THREADS : SF_vars(FetchThreadStep(t))
    /\ SF_vars(WriterStep)
    /\ SF_vars(ApiStep)

\* Whoever can hold a lock, and where each of them is.
Holders == THREADS \cup {"api", "writer"}
At(h) == IF h \in THREADS THEN threads[h].pc ELSE aux[h]
Holds(h) == lock = h \/ _gsheet_lock = h

\* h stands before a `with lock:` block, before a `with _gsheet_lock:` block.
RequestsLock(h) ==
    IF h \in THREADS
    THEN threads[h].pc \in {"auth_failed", "stamped", "failed", "file_read",
                            "sheet_read", "read_cands"}
    ELSE h = "api" /\ aux.api = "waiting"
RequestsQueueLock(h) ==
    IF h \in THREADS THEN threads[h].pc = "queue_append"
    ELSE h = "writer" /\ aux.writer = "pop"

\* h is in a time.sleep(): the tick's pause, the writer's pause after a
\* failure (server.py:884, :595, :628, :632).
Sleeping(h) ==
    \/ h = "fetcher" /\ threads[h].pc = "idle" /\ threads[h].wake > clock
    \/ h = "writer" /\ aux.writer = "idle" /\ writer_wake > clock

\* The step that was just made called the poll API or the remote sheet.
NetworkStep ==
    \/ obs'.op \in {"writer", "writer_init"}
    \/ obs'.op = "thread" /\ obs'.step \in {"fetch", "sheet_build"}

\* No holder of a lock stands before a lock or sleeps.
NoRequestWhileHolding ==
    \A h \in Holders :
       Holds(h) => ~RequestsLock(h) /\ ~RequestsQueueLock(h) /\ ~Sleeping(h)
                   /\ ~(lock = h /\ _gsheet_lock = h)

\* A step in or into a locked block makes no network call, and the only step
\* a holder makes is the one that gives the lock back.
LockedStepsAreLocal ==
    \A h \in Holders :
       /\ Holds(h) /\ At(h)' # At(h) => ~Holds(h)' /\ ~NetworkStep
       /\ ~Holds(h) /\ Holds(h)' => ~NetworkStep

\* C31: no thread (tick, triggered refresh, API reader, writer) stands before
\* the state lock or the queue lock, sleeps or makes a network call while it
\* holds either of them, and under fair scheduling every thread that stands
\* before a lock comes to hold it.
C31_NoNestingNoBlockingAndEveryRequestGranted ==
    /\ []NoRequestWhileHolding
    /\ [][LockedStepsAreLocal]_vars
    /\ \A h \in THREADS \cup {"api"} : RequestsLock(h) ~> (lock = h)
    /\ \A h \in THREADS \cup {"writer"} : RequestsQueueLock(h) ~> (_gsheet_lock = h)

\* C31 witness: the tick holds the state lock for its commit while the
\* triggered refresh and the API reader stand before it and the writer holds
\* the queue lock.
C31_AllContend ==
    /\ lock = "fetcher"
    /\ threads["fetcher"].pc = "commit_locked"
    /\ RequestsLock("refresh")
    /\ RequestsLock("api")
    /\ _gsheet_lock = "writer"

====
